---- MODULE Spec2Model ----
(***************************************************************************)
(* wow-patcher: the wildcard pattern matcher (src/binary/mod.rs), the      *)
(* section validation (src/binary/section.rs) and the patch orchestrator   *)
(* execute_patch (src/cmd/execute.rs).                                     *)
(*                                                                         *)
(* Offsets are 0-based as in the Rust code; a TLA+ sequence s holds the    *)
(* byte at offset i in s[i + 1].  Option<usize> is a set: {} is None and   *)
(* {i} is Some(i).                                                         *)
(***************************************************************************)
EXTENDS Integers, Sequences, FiniteSets, TLC

\* ------------------------------------------------------------------------
\* Bounds of the matcher specification (SpecMatcher)
\* ------------------------------------------------------------------------
MaxData == 4
MaxPat == 3
MaxRep == 3
MaxCalls == 2

\* ------------------------------------------------------------------------
\* src/binary/mod.rs
\* ------------------------------------------------------------------------
WILDCARD == -1

\* all sequences over S of length 0..n
RECURSIVE SeqsUpTo(_, _)
SeqsUpTo(S, n) ==
    IF n = 0 THEN {<< >>}
    ELSE LET shorter == SeqsUpTo(S, n - 1)
         IN  shorter \cup {Append(s, x) : s \in {t \in shorter : Len(t) = n - 1}, x \in S}

\* the zero buffer one byte shorter than the pattern
empty_short(pattern) == [k \in 1..(Len(pattern) - 1) |-> 0]

\* impl PatternExt for Pattern: fn empty(&self) -> vec![0; self.len()]
empty(pattern) == [k \in 1..Len(pattern) |-> 0]

\* inner loop of find_pattern: the first j >= j0 at which the pattern
\* position is no wildcard and differs from data[i + j] makes the candidate
\* offset i fail (continue 'outer); running off the pattern is a match.
RECURSIVE matches_at(_, _, _, _)
matches_at(data, pattern, i, j) ==
    IF j >= Len(pattern) THEN TRUE
    ELSE IF pattern[j + 1] # WILDCARD /\ data[i + j + 1] # pattern[j + 1] THEN FALSE
    ELSE matches_at(data, pattern, i, j + 1)

\* 'outer: for i in lo..=hi { .. return Some(i) } None
\* The loop tries the offsets in increasing order and returns at the first
\* one whose inner loop completes.  The range is split in two halves, the
\* lower half first, so that the depth of the evaluation is logarithmic in
\* the length of the buffer.
RECURSIVE find_from(_, _, _, _)
find_from(data, pattern, lo, hi) ==
    IF lo > hi THEN {}
    ELSE IF lo = hi THEN (IF matches_at(data, pattern, lo, 0) THEN {lo} ELSE {})
    ELSE LET mid == (lo + hi) \div 2
             lower == find_from(data, pattern, lo, mid)
         IN  IF lower # {} THEN lower ELSE find_from(data, pattern, mid + 1, hi)

\* the same loop returning at the last matching offset instead of the first
RECURSIVE find_back(_, _, _, _)
find_back(data, pattern, lo, hi) ==
    IF lo > hi THEN {}
    ELSE IF lo = hi THEN (IF matches_at(data, pattern, lo, 0) THEN {lo} ELSE {})
    ELSE LET mid == (lo + hi) \div 2
             upper == find_back(data, pattern, mid + 1, hi)
         IN  IF upper # {} THEN upper ELSE find_back(data, pattern, lo, mid)

find_pattern_last(data, pattern) ==
    IF Len(pattern) = 0 \/ Len(data) < Len(pattern) THEN {}
    ELSE find_back(data, pattern, 0, Len(data) - Len(pattern))

\* find_pattern with the candidate offsets running to the last byte of the
\* buffer: pattern positions that fall behind the end compare as equal
find_pattern_unbounded(data, pattern) ==
    IF Len(pattern) = 0 \/ Len(data) < Len(pattern) THEN {}
    ELSE LET hits == {i \in 0..(Len(data) - 1) :
                         \A j \in 0..(Len(pattern) - 1) :
                             \/ i + j + 1 > Len(data)
                             \/ pattern[j + 1] = WILDCARD
                             \/ data[i + j + 1] = pattern[j + 1]}
         IN  IF hits = {} THEN {}
             ELSE {CHOOSE i \in hits : \A k \in hits : i <= k}

\* fn find_pattern(data: &[u8], pattern: &Pattern) -> Option<usize>
find_pattern(data, pattern) ==
    IF Len(pattern) = 0 \/ Len(data) < Len(pattern) THEN {}
    ELSE find_from(data, pattern, 0, Len(data) - Len(pattern))

Min(a, b) == IF a < b THEN a ELSE b

\* data[pos..(replace_len + pos)].copy_from_slice(&replace[..replace_len])
copy_from_slice(data, pos, replace, replace_len) ==
    [k \in 1..Len(data) |->
        IF k - 1 >= pos /\ k - 1 < pos + replace_len THEN replace[k - pos] ELSE data[k]]

Ok(d) == [result |-> "Ok", data |-> d]
Err(category, d) == [result |-> category, data |-> d]

\* patch that writes the whole match: replacement bytes, then zero fill
patch_fill(data, find, replace) ==
    IF Len(data) = 0 THEN Err("PatchingError", data)
    ELSE IF Len(find) > Len(data) THEN Err("PatchingError", data)
    ELSE LET position == find_pattern(data, find)
         IN  IF position = {} THEN Err("PatchingError", data)
             ELSE LET pos == CHOOSE p \in position : TRUE
                      padded == [k \in 1..Len(find) |->
                                    IF k <= Len(replace) THEN replace[k] ELSE 0]
                  IN  Ok(copy_from_slice(data, pos, padded, Len(find)))

\* patch that reports success when nothing matched
patch_lenient(data, find, replace) ==
    IF Len(data) = 0 THEN Err("PatchingError", data)
    ELSE IF Len(find) > Len(data) THEN Err("PatchingError", data)
    ELSE LET position == find_pattern(data, find)
         IN  IF position = {} THEN Ok(data)
             ELSE LET pos == CHOOSE p \in position : TRUE
                      replace_len == Min(Len(replace), Len(find))
                  IN  Ok(copy_from_slice(data, pos, replace, replace_len))

\* pub fn patch(data: &mut [u8], find: &Pattern, replace: &[u8]) -> Result<(), _>
\* returns the result together with the buffer as the call leaves it
patch(data, find, replace) ==
    IF Len(data) = 0 THEN Err("PatchingError", data)
    ELSE IF Len(find) > Len(data) THEN Err("PatchingError", data)
    ELSE LET position == find_pattern(data, find)
         IN  IF position = {} THEN Err("PatchingError", data)
             ELSE LET pos == CHOOSE p \in position : TRUE
                      replace_len == Min(Len(replace), Len(find))
                  IN  Ok(copy_from_slice(data, pos, replace, replace_len))

\* ------------------------------------------------------------------------
\* src/patterns/mod.rs: the pattern constants, byte for byte
\* (string_to_pattern maps each character of the string to its byte value)
\* ------------------------------------------------------------------------
\* string_to_pattern(".actual.battle.net")
portal_pattern == <<
    46, 97, 99, 116, 117, 97, 108, 46, 98, 97, 116, 116, 108, 101, 46, 110,
    101, 116 >>

\* vec![0x91, 0xD5, 0x9B, 0xB7, 0xD4, 0xE1, 0x83, 0xA5]
connect_to_modulus_pattern == <<
    145, 213, 155, 183, 212, 225, 131, 165 >>

\* vec![0x35, 0xFF, 0x17, 0xE7, 0x33, 0xC4, 0xD3, 0xD4]
signature_modulus_pattern == <<
    53, 255, 23, 231, 51, 196, 211, 212 >>

\* vec![0x71, 0xFD, 0xFA, 0x60, 0x14, 0x0D, 0xF2, 0x05]
crypto_rsa_modulus_pattern == <<
    113, 253, 250, 96, 20, 13, 242, 5 >>

\* vec![0x15, 0xD6, 0x18, 0xBD, 0x7D, 0xB5, 0x77, 0xBD]
crypto_ed_public_key_pattern == <<
    21, 214, 24, 189, 125, 181, 119, 189 >>

\* string_to_pattern("http://%s.patch.battle.net:1119/%s/versions")
version_url_pattern == <<
    104, 116, 116, 112, 58, 47, 47, 37, 115, 46, 112, 97, 116, 99, 104, 46,
    98, 97, 116, 116, 108, 101, 46, 110, 101, 116, 58, 49, 49, 49, 57, 47,
    37, 115, 47, 118, 101, 114, 115, 105, 111, 110, 115 >>

\* string_to_pattern("https://%s.version.battle.net/v2/products/%s/versions")
version_url_v2_pattern == <<
    104, 116, 116, 112, 115, 58, 47, 47, 37, 115, 46, 118, 101, 114, 115, 105,
    111, 110, 46, 98, 97, 116, 116, 108, 101, 46, 110, 101, 116, 47, 118, 50,
    47, 112, 114, 111, 100, 117, 99, 116, 115, 47, 37, 115, 47, 118, 101, 114,
    115, 105, 111, 110, 115 >>

\* string_to_pattern("https://%s.version.battle.net/v2/products/%s/%s")
version_url_v3_pattern == <<
    104, 116, 116, 112, 115, 58, 47, 47, 37, 115, 46, 118, 101, 114, 115, 105,
    111, 110, 46, 98, 97, 116, 116, 108, 101, 46, 110, 101, 116, 47, 118, 50,
    47, 112, 114, 111, 100, 117, 99, 116, 115, 47, 37, 115, 47, 37, 115 >>

\* string_to_pattern("http://%s.patch.battle.net:1119/%s/cdns")
cdns_url_pattern == <<
    104, 116, 116, 112, 58, 47, 47, 37, 115, 46, 112, 97, 116, 99, 104, 46,
    98, 97, 116, 116, 108, 101, 46, 110, 101, 116, 58, 49, 49, 49, 57, 47,
    37, 115, 47, 99, 100, 110, 115 >>

\* ------------------------------------------------------------------------
\* src/trinity/mod.rs
\* ------------------------------------------------------------------------
RSA_MODULUS == <<
    95, 214, 128, 11, 167, 255, 1, 64, 199, 188, 142, 245, 107, 39, 176, 191,
    240, 29, 27, 254, 221, 11, 31, 61, 182, 111, 26, 72, 13, 251, 81, 8,
    101, 88, 79, 219, 92, 110, 207, 100, 203, 193, 107, 46, 184, 15, 93, 8,
    93, 137, 6, 169, 119, 139, 158, 170, 4, 176, 131, 16, 226, 21, 77, 8,
    119, 212, 122, 14, 90, 176, 187, 0, 97, 215, 166, 117, 223, 6, 100, 136,
    187, 185, 202, 176, 24, 139, 84, 19, 226, 203, 51, 223, 23, 216, 218, 169,
    165, 96, 163, 31, 78, 39, 5, 152, 111, 170, 238, 20, 59, 243, 151, 168,
    18, 2, 148, 13, 132, 220, 14, 241, 118, 35, 149, 54, 19, 249, 169, 197,
    72, 219, 218, 134, 190, 41, 34, 84, 68, 157, 159, 128, 123, 7, 128, 48,
    234, 210, 131, 204, 206, 55, 209, 209, 207, 133, 190, 145, 37, 206, 192, 204,
    85, 200, 192, 251, 56, 197, 73, 3, 106, 2, 169, 159, 159, 134, 251, 199,
    203, 198, 165, 130, 162, 48, 194, 172, 230, 152, 218, 131, 100, 67, 127, 13,
    19, 24, 235, 144, 83, 91, 55, 107, 230, 13, 128, 30, 239, 237, 199, 184,
    104, 155, 76, 9, 123, 96, 178, 87, 216, 89, 141, 127, 234, 205, 235, 196,
    96, 159, 69, 122, 169, 38, 138, 47, 133, 12, 242, 25, 198, 83, 146, 247,
    240, 184, 50, 203, 91, 102, 206, 81, 84, 180, 195, 211, 212, 220, 179, 238 >>

CRYPTO_ED25519_PUBLIC_KEY == <<
    2, 89, 111, 13, 12, 6, 26, 139, 48, 116, 89, 136, 253, 114, 197, 158,
    41, 236, 54, 127, 176, 243, 65, 242, 142, 15, 8, 208, 55, 186, 252, 105 >>

\* get_version_url(None, None, None): "http://ngdp.arctium.io/%s/%s/latest/versions"
get_version_url == <<
    104, 116, 116, 112, 58, 47, 47, 110, 103, 100, 112, 46, 97, 114, 99, 116,
    105, 117, 109, 46, 105, 111, 47, 37, 115, 47, 37, 115, 47, 108, 97, 116,
    101, 115, 116, 47, 118, 101, 114, 115, 105, 111, 110, 115 >>

\* get_cdns_url(): "http://ngdp.arctium.io/customs/wow/cdns"
get_cdns_url == <<
    104, 116, 116, 112, 58, 47, 47, 110, 103, 100, 112, 46, 97, 114, 99, 116,
    105, 117, 109, 46, 105, 111, 47, 99, 117, 115, 116, 111, 109, 115, 47, 119,
    111, 119, 47, 99, 100, 110, 115 >>

\* get_unified_api_url(None): the unified endpoint template with the region,
\* product and endpoint placeholders, "http://ngdp.arctium.io/%s/%s/%s"
get_unified_api_url == <<
    104, 116, 116, 112, 58, 47, 47, 110, 103, 100, 112, 46, 97, 114, 99, 116,
    105, 117, 109, 46, 105, 111, 47, 37, 115, 47, 37, 115, 47, 37, 115 >>

\* the builder without the truncation: a longer url is returned whole
create_url_replacement_padonly(url, original_len) ==
    IF Len(url) > original_len
    THEN url
    ELSE [k \in 1..original_len |-> IF k <= Len(url) THEN url[k] ELSE 0]

\* pub fn create_url_replacement(url: &str, original_len: usize) -> Vec<u8>
create_url_replacement(url, original_len) ==
    IF Len(url) > original_len
    THEN SubSeq(url, 1, original_len)                        \* result.truncate
    ELSE [k \in 1..original_len |-> IF k <= Len(url) THEN url[k] ELSE 0]  \* resize

\* pub fn trinity_core() -> Self
trinity_core ==
    [rsa_modulus |-> RSA_MODULUS, ed25519_public_key |-> CRYPTO_ED25519_PUBLIC_KEY]

\* The key configurations a run of Spec is given.
KeyConfigs == {trinity_core}

\* pub fn rsa_modulus(&self) -> &[u8]
rsa_modulus(key) == key.rsa_modulus

\* pub fn ed25519_public_key(&self) -> &[u8]
ed25519_public_key(key) == key.ed25519_public_key

\* ------------------------------------------------------------------------
\* src/platform/mod.rs
\* ------------------------------------------------------------------------
ClientTypes == {"Retail", "Classic", "ClassicEra", "Unknown"}

\* the predicate without the Classic Era exception
uses_ed25519_all(ct) == ct \in ClientTypes

\* ClientType::uses_ed25519
uses_ed25519(ct) ==
    CASE ct \in {"Retail", "Classic", "Unknown"} -> TRUE
      [] ct = "ClassicEra" -> FALSE

\* ------------------------------------------------------------------------
\* src/binary/section.rs
\* What Object::parse(data) yields for the input bytes is one of
\*   [kind |-> "PE", sections |-> <<section, ...>>], with
\*       section = [name, pointer_to_raw_data, size_of_raw_data] and name the
\*       raw 8-byte name field of the section header;
\*   [kind |-> "Mach", arch |-> "Binary", segments |-> <<segment, ...>>], with
\*       segment = [name, fileoff, filesize, sections] where name is the
\*       result of segment.name() ({} when it is Err, {str} when it is Ok)
\*       and sections is the result of segment.sections() ({} when it is
\*       Err, {<<[name, offset, size], ...>>} when it is Ok, name again a
\*       result);
\*   [kind |-> "Mach", arch |-> "Fat"];
\*   [kind |-> "Other"] for the other formats goblin knows;
\*   [kind |-> "Unparsed"] when Object::parse fails.
\* A parsed file keeps its section and segment ranges inside the file, so the
\* sums start + size stay far below the width of usize.
\* ------------------------------------------------------------------------
\* ".rdata", ".data" and ".text" as bytes
rdata == << 46, 114, 100, 97, 116, 97 >>
dot_data == << 46, 100, 97, 116, 97 >>
dot_text == << 46, 116, 101, 120, 116 >>

\* str::trim_end_matches('\0') on the lossy decoding of the name field (the
\* model's names are ASCII, which from_utf8_lossy leaves as they are)
trim_end_matches(name) ==
    LET kept == {k \in 1..Len(name) : name[k] # 0}
        last == IF kept = {} THEN 0 ELSE CHOOSE k \in kept : \A j \in kept : j <= k
    IN  SubSeq(name, 1, last)

\* the loop returning the last section whose file range holds offset
RECURSIVE pe_scan_last(_, _, _)
pe_scan_last(sections, offset, n) ==
    IF n > Len(sections) THEN {}
    ELSE LET section == sections[n]
             name == trim_end_matches(section.name)
             start == section.pointer_to_raw_data
             end == start + section.size_of_raw_data
             later == pe_scan_last(sections, offset, n + 1)
         IN  IF later # {} THEN later
             ELSE IF offset >= start /\ offset < end
             THEN {[name |-> name,
                    file_offset |-> section.pointer_to_raw_data,
                    is_patchable |-> name = rdata \/ name = dot_data]}
             ELSE {}

\* for section in &pe.sections: the first section whose file range holds offset
RECURSIVE pe_scan(_, _, _)
pe_scan(sections, offset, n) ==
    IF n > Len(sections) THEN {}
    ELSE LET section == sections[n]
             name == trim_end_matches(section.name)
             start == section.pointer_to_raw_data
             end == start + section.size_of_raw_data
         IN  IF offset >= start /\ offset < end
             THEN {[name |-> name,
                    file_offset |-> section.pointer_to_raw_data,
                    is_patchable |-> name = rdata \/ name = dot_data]}
             ELSE pe_scan(sections, offset, n + 1)

\* fn check_pe_offset(pe, offset) -> Option<SectionInfo>
check_pe_offset(pe, offset) == pe_scan(pe.sections, offset, 1)

\* the section loop with a whitelist of the two data segments only
RECURSIVE macho_sect_scan_data(_, _, _, _)
macho_sect_scan_data(seg_name, sections, offset, n) ==
    IF n > Len(sections) THEN [found |-> FALSE, info |-> {}]
    ELSE LET sect == sections[n]
         IN  IF offset >= sect.offset /\ offset < sect.offset + sect.size
             THEN IF sect.name = {}
                  THEN [found |-> TRUE, info |-> {}]
                  ELSE [found |-> TRUE,
                        info |-> {[name |-> seg_name \o "." \o (CHOOSE x \in sect.name : TRUE),
                                   file_offset |-> sect.offset,
                                   is_patchable |-> seg_name = "__DATA"
                                                    \/ seg_name = "__DATA_CONST"]}]
             ELSE macho_sect_scan_data(seg_name, sections, offset, n + 1)

\* for (sect, _) in sections.iter(): the first section whose file range holds
\* offset ends the whole query, with None when its name does not decode;
\* found is FALSE when the loop runs off the end
RECURSIVE macho_sect_scan(_, _, _, _)
macho_sect_scan(seg_name, sections, offset, n) ==
    IF n > Len(sections) THEN [found |-> FALSE, info |-> {}]
    ELSE LET sect == sections[n]
             sect_start == sect.offset
             sect_end == sect_start + sect.size
         IN  IF offset >= sect_start /\ offset < sect_end
             THEN IF sect.name = {}
                  THEN [found |-> TRUE, info |-> {}]           \* sect.name().ok()?
                  ELSE LET section_name == CHOOSE x \in sect.name : TRUE
                       IN  [found |-> TRUE,
                            info |-> {[name |-> seg_name \o "." \o section_name,
                                       file_offset |-> sect.offset,
                                       is_patchable |->
                                           \/ seg_name = "__DATA"
                                           \/ seg_name = "__DATA_CONST"
                                           \/ (seg_name = "__TEXT" /\ section_name = "__const")]}]
             ELSE macho_sect_scan(seg_name, sections, offset, n + 1)

\* for segment in &macho.segments: a segment whose name does not decode ends
\* the query with None, whether or not it holds the offset
RECURSIVE macho_scan(_, _, _)
macho_scan(segments, offset, n) ==
    IF n > Len(segments) THEN {}
    ELSE LET segment == segments[n]
             file_start == segment.fileoff
             file_end == file_start + segment.filesize
         IN  IF segment.name = {} THEN {}                      \* segment.name().ok()?
             ELSE LET seg_name == CHOOSE x \in segment.name : TRUE
                      inner == IF segment.sections = {}
                               THEN [found |-> FALSE, info |-> {}]
                               ELSE macho_sect_scan(seg_name,
                                                    CHOOSE x \in segment.sections : TRUE,
                                                    offset, 1)
                  IN  IF offset >= file_start /\ offset < file_end
                      THEN IF inner.found THEN inner.info
                           ELSE {[name |-> seg_name,
                                  file_offset |-> segment.fileoff,
                                  is_patchable |-> seg_name = "__DATA"
                                                   \/ seg_name = "__DATA_CONST"]}
                      ELSE macho_scan(segments, offset, n + 1)

\* fn check_macho_offset(mach, offset) -> Option<SectionInfo>
check_macho_offset(mach, offset) ==
    CASE mach.arch = "Binary" -> macho_scan(mach.segments, offset, 1)
      [] mach.arch = "Fat" -> {}

\* pub fn check_offset_section(data, offset) -> Option<SectionInfo>
\* (obj is what Object::parse(data) yields for the input bytes)
check_offset_section(obj, offset) ==
    CASE obj.kind = "PE" -> check_pe_offset(obj, offset)
      [] obj.kind = "Mach" -> check_macho_offset(obj, offset)
      [] OTHER -> {}

\* the collection stopping at the first offset it refuses
RECURSIVE validation_errors_first(_, _, _)
validation_errors_first(obj, offsets, n) ==
    IF n > Len(offsets) THEN << >>
    ELSE LET offset == offsets[n][1]
             section == check_offset_section(obj, offset)
         IN  IF section # {} /\ (CHOOSE x \in section : TRUE).is_patchable
             THEN validation_errors_first(obj, offsets, n + 1)
             ELSE << [pattern |-> offsets[n][2], offset |-> offset,
                      why |-> IF section # {} THEN "non-patchable section"
                              ELSE "unable to determine section"] >>

\* the messages validate_patch_offsets collects, in input order
RECURSIVE validation_errors(_, _, _)
validation_errors(obj, offsets, n) ==
    IF n > Len(offsets) THEN << >>
    ELSE LET offset == offsets[n][1]
             pattern_name == offsets[n][2]
             section == check_offset_section(obj, offset)
             rest == validation_errors(obj, offsets, n + 1)
         IN  IF section # {}
             THEN IF ~(CHOOSE x \in section : TRUE).is_patchable
                  THEN << [pattern |-> pattern_name, offset |-> offset,
                           why |-> "non-patchable section"] >> \o rest
                  ELSE rest
             ELSE << [pattern |-> pattern_name, offset |-> offset,
                      why |-> "unable to determine section"] >> \o rest

\* pub fn validate_patch_offsets(data, offsets) -> Result<(), String>
\* << >> is Ok(()); a non-empty sequence is Err(errors.join("\n"))
validate_patch_offsets(obj, offsets) == validation_errors(obj, offsets, 1)

\* ------------------------------------------------------------------------
\* Bounds and inputs of the orchestrator specification (Spec)
\* ------------------------------------------------------------------------
\* at most this many of the nine patterns occur in an input file
MaxPresent == 4

\* const MAX_FILE_SIZE: u64 = 1024 * 1024 * 1024
MAX_FILE_SIZE == 1073741824
\* if metadata.len() < 1024
MIN_FILE_SIZE == 1024

PatternNames ==
    << "Portal", "ConnectTo", "Signature", "Crypto", "Ed25519", "v1", "v2", "v3", "CDNs" >>

PatternOf(name) ==
    CASE name = "Portal" -> portal_pattern
      [] name = "ConnectTo" -> connect_to_modulus_pattern
      [] name = "Signature" -> signature_modulus_pattern
      [] name = "Crypto" -> crypto_rsa_modulus_pattern
      [] name = "Ed25519" -> crypto_ed_public_key_pattern
      [] name = "v1" -> version_url_pattern
      [] name = "v2" -> version_url_v2_pattern
      [] name = "v3" -> version_url_v3_pattern
      [] name = "CDNs" -> cdns_url_pattern

\* the label execute_patch gives a pattern in offsets_to_validate
Label(name) ==
    CASE name = "Portal" -> "Portal (.actual.battle.net)"
      [] name = "ConnectTo" -> "RSA Modulus (ConnectTo)"
      [] name = "Signature" -> "RSA Modulus (Signature)"
      [] name = "Crypto" -> "RSA Modulus (Crypto)"
      [] name = "Ed25519" -> "Ed25519 Public Key"
      [] name = "v1" -> "Version URL"
      [] name = "v2" -> "Version URL v2"
      [] name = "v3" -> "Version URL v3"
      [] name = "CDNs" -> "CDNs URL"

\* Input files: one zero byte, then the chosen patterns one after the other
\* in the order of PatternNames.  A layout is the sequence of their names.
Layouts ==
    {SelectSeq(PatternNames, LAMBDA n : n \in S) :
        S \in {T \in SUBSET {PatternNames[k] : k \in 1..Len(PatternNames)} :
                  Cardinality(T) <= MaxPresent}}

RECURSIVE BuildData(_, _)
BuildData(lay, n) ==
    IF n > Len(lay) THEN << >>
    ELSE PatternOf(lay[n]) \o BuildData(lay, n + 1)

FileOf(lay) == << 0 >> \o BuildData(lay, 1)

RECURSIVE ChunkStart(_, _)
ChunkStart(lay, n) ==
    IF n = 1 THEN 1 ELSE ChunkStart(lay, n - 1) + Len(PatternOf(lay[n - 1]))

\* the 8-byte name field of a section header: the name, zero padded
name8(name) == [k \in 1..8 |-> IF k <= Len(name) THEN name[k] ELSE 0]

\* Section tables: what Object::parse yields for the file.  Either the file
\* does not parse, or it is a PE file with one section per pattern, named
\* ".rdata" and ".data" in turn, except at most one (bad), which is ".text"
\* or absent from the table (its bytes lie in no section).
RECURSIVE SectionsOf(_, _, _, _)
SectionsOf(lay, bad, kind, n) ==
    IF n > Len(lay) THEN << >>
    ELSE LET sec == [name |-> IF n = bad THEN name8(dot_text)
                                 ELSE IF n % 2 = 1 THEN name8(rdata) ELSE name8(dot_data),
                     pointer_to_raw_data |-> ChunkStart(lay, n),
                     size_of_raw_data |-> Len(PatternOf(lay[n]))]
         IN  (IF n = bad /\ kind = "unmapped" THEN << >> ELSE << sec >>)
             \o SectionsOf(lay, bad, kind, n + 1)

ObjectsOf(lay) ==
    {[kind |-> "Unparsed"]} \cup
    {[kind |-> "PE", sections |-> SectionsOf(lay, 0, ".rdata", 1)]} \cup
    {[kind |-> "PE", sections |-> SectionsOf(lay, bad, kind, 1)] :
        bad \in 1..Len(lay), kind \in {".text", "unmapped"}}

\* ------------------------------------------------------------------------
\* State
\* ------------------------------------------------------------------------
VARIABLES
    m_data,      \* matcher: the buffer (data) as the last call left it
    m_before,    \* matcher: the buffer as it was when the last call started
    m_find,      \* matcher: the pattern of the calls
    m_replace,   \* matcher: the replacement of the calls
    m_position,  \* matcher: find_pattern's result on m_before for m_find
    m_result,    \* matcher: "none" | "Found" | "Ok" | "PatchingError"
    m_calls,     \* matcher: number of calls made so far
    pc,          \* execute_patch: the step the run is at
    dry_run,     \* execute_patch argument
    client_type, \* detect_client_type(input_path)
    key_config,  \* execute_patch argument
    version_url, \* execute_patch argument, Option<&str> as a set
    cdns_url,    \* execute_patch argument, Option<&str> as a set
    layout,      \* the file at input_path: the patterns it holds (see FileOf)
    obj,         \* Object::parse of those bytes
    data,        \* let mut data = fs::read(input_path)
    temp_data,   \* the dry run's clone of data
    offsets_to_validate,
    listed,      \* dry run: the "Section Validation" lines printed
    patch_count,
    used_unified_api,
    result,      \* "running", "Ok" or the ErrorCategory returned
    output,      \* the file at output_path: {} or {bytes written}
    codesign,    \* number of calls of remove_codesigning_signature
    log,         \* the patch calls made so far, in order
    strip_codesign, \* execute_patch argument as a set: {} while the run has not
                 \* read it (line 637), {b} once it has
    macos,       \* cfg!(target_os = "macos"), likewise
    s_obj,       \* section queries: Object::parse of the buffer queried
    s_offset,    \* section queries: the offset of the last check_offset_section
    s_offsets,   \* section queries: the list of the last validate_patch_offsets
    s_section,   \* section queries: Option<SectionInfo> of the last query
    s_errors,    \* section queries: the messages of the last validation
    s_op,        \* section queries: "none" | "query" | "validate"
    b_url,       \* create_url_replacement: the url argument, as bytes
    b_len,       \* create_url_replacement: the original_len argument
    b_result,    \* create_url_replacement: {} or {the buffer returned}
    k_config,    \* KeyConfig: {} or {the value the last constructor returned}
    k_error,     \* KeyConfig: {} or {the error the last constructor returned}
    k_call,      \* KeyConfig: the last constructor call and its argument
    k_steps,     \* KeyConfig: number of constructor calls made
    patcher,     \* Patcher: {} or {the builder value held}
    p_state,     \* Patcher: "none" | "building" | "Err" | "patched"
    p_calls,     \* Patcher: number of builder methods called after new
    p_output,    \* Patcher: the output path patch passed to execute_patch
    cells,       \* patterns: the OnceLock statics, {} or {the value set}
    inits,       \* patterns: how often each initialising closure has run
    threads,     \* patterns: what each thread is doing
    c_calls      \* patterns: number of accessor calls started

mvars == << m_data, m_before, m_find, m_replace, m_position, m_result, m_calls >>

xvars == << pc, dry_run, client_type, key_config, version_url, cdns_url, layout, obj,
            data, temp_data, offsets_to_validate, listed, patch_count,
            used_unified_api, result, output, codesign, log, strip_codesign, macos >>

svars == << s_obj, s_offset, s_offsets, s_section, s_errors, s_op >>

bvars == << b_url, b_len, b_result >>

kvars == << k_config, k_error, k_call, k_steps >>

pvars == << patcher, p_state, p_calls, p_output >>

cvars == << cells, inits, threads, c_calls >>

\* the variables of the specifications of the library functions
uvars == << svars, bvars, kvars, pvars, cvars >>

vars == << mvars, xvars, uvars >>

\* the byte values of the matcher specification's buffers and replacements
Bytes == {0, 1}
Patterns == SeqsUpTo(Bytes \cup {WILDCARD}, MaxPat)
Replacements == SeqsUpTo(Bytes, MaxRep)

MatcherIdle ==
    /\ m_data = << >>
    /\ m_before = << >>
    /\ m_find = << >>
    /\ m_replace = << >>
    /\ m_position = {}
    /\ m_result = "none"
    /\ m_calls = 0

SectionIdle ==
    /\ s_obj = [kind |-> "Unparsed"]
    /\ s_offset = 0
    /\ s_offsets = << >>
    /\ s_section = {}
    /\ s_errors = << >>
    /\ s_op = "none"

BuilderIdle ==
    /\ b_url = << >>
    /\ b_len = 0
    /\ b_result = {}

\* no constructor called yet: no value, no error, no arguments
NoCall == [fn |-> "none", rsa |-> << >>, ed |-> << >>, hex |-> << >>, file |-> {}]

KeysIdle ==
    /\ k_config = {}
    /\ k_error = {}
    /\ k_call = NoCall
    /\ k_steps = 0

PatcherIdle ==
    /\ patcher = {}
    /\ p_state = "none"
    /\ p_calls = 0
    /\ p_output = << >>

\* the threads of the pattern specification
NumThreads == 2
Threads == 1..NumThreads

\* the accessors of src/patterns/mod.rs, one OnceLock static each
Accessors ==
    {"portal_pattern", "connect_to_modulus_pattern", "signature_modulus_pattern",
     "crypto_rsa_modulus_pattern", "crypto_ed_public_key_pattern", "version_url_pattern",
     "version_url_v2_pattern", "version_url_v3_pattern", "cdns_url_pattern",
     "cert_bundle_pattern"}

\* a thread that is in no accessor
NoAccess == [pc |-> "idle", name |-> "", got |-> {}]

PatternsIdle ==
    /\ cells = [n \in Accessors |-> {}]
    /\ inits = [n \in Accessors |-> 0]
    /\ threads = [t \in Threads |-> NoAccess]
    /\ c_calls = 0

OrchestratorIdle ==
    /\ pc = "idle"
    /\ dry_run = FALSE
    /\ client_type = "Unknown"
    /\ key_config = trinity_core
    /\ version_url = {}
    /\ cdns_url = {}
    /\ layout = << >>
    /\ obj = [kind |-> "Unparsed"]
    /\ data = << >>
    /\ temp_data = << >>
    /\ offsets_to_validate = << >>
    /\ listed = << >>
    /\ patch_count = 0
    /\ used_unified_api = FALSE
    /\ result = "running"
    /\ output = {}
    /\ codesign = 0
    /\ log = << >>
    /\ strip_codesign = {}
    /\ macos = {}

\* ------------------------------------------------------------------------
\* SpecMatcher: find_pattern and patch called on arbitrary small inputs
\* ------------------------------------------------------------------------
MatcherInit ==
    /\ m_data \in SeqsUpTo(Bytes, MaxData)
    /\ m_before = m_data
    /\ m_find \in Patterns
    /\ m_replace \in Replacements
    /\ m_position = {}
    /\ m_result = "none"
    /\ m_calls = 0
    /\ OrchestratorIdle
    /\ SectionIdle /\ BuilderIdle /\ KeysIdle /\ PatcherIdle /\ PatternsIdle

\* data.find_pattern(&find)
FindCall ==
    /\ m_calls < MaxCalls
    /\ m_position' = find_pattern(m_data, m_find)
    /\ m_before' = m_data
    /\ m_result' = "Found"
    /\ m_calls' = m_calls + 1
    /\ UNCHANGED << m_data, m_find, m_replace, xvars, uvars >>

\* patch(&mut data, &find, &replace)
PatchCall ==
    /\ m_calls < MaxCalls
    /\ LET r == patch(m_data, m_find, m_replace)
       IN  /\ m_data' = r.data
           /\ m_result' = r.result
    /\ m_position' = find_pattern(m_data, m_find)
    /\ m_before' = m_data
    /\ m_calls' = m_calls + 1
    /\ UNCHANGED << m_find, m_replace, xvars, uvars >>

MatcherNext == FindCall \/ PatchCall

SpecMatcher == MatcherInit /\ [][MatcherNext]_vars

\* ------------------------------------------------------------------------
\* Spec: one run of execute_patch (src/cmd/execute.rs)
\* ------------------------------------------------------------------------
Init ==
    /\ MatcherIdle
    /\ SectionIdle /\ BuilderIdle /\ KeysIdle /\ PatcherIdle /\ PatternsIdle
    /\ pc = "start"
    /\ dry_run \in BOOLEAN
    /\ client_type \in ClientTypes
    /\ key_config \in KeyConfigs
    /\ version_url = {}
    /\ cdns_url = {}
    /\ layout \in Layouts
    /\ obj \in ObjectsOf(layout)
    /\ data = << >>
    /\ temp_data = << >>
    /\ offsets_to_validate = << >>
    /\ listed = << >>
    /\ patch_count = 0
    /\ used_unified_api = FALSE
    /\ result = "running"
    /\ output = {}
    /\ codesign = 0
    /\ log = << >>
    /\ strip_codesign = {}
    /\ macos = {}

\* the bytes of the file at input_path
input == FileOf(layout)

unwrap_or(opt, default) == IF opt = {} THEN default ELSE CHOOSE x \in opt : TRUE

\* one call patch(d, pattern, replace) and the record of it kept in log:
\* op is "patch" on the real buffer and "probe" on the dry run's clone
Call(op, d, name, replace) ==
    LET r == patch(d, PatternOf(name), replace)
    IN  [result |-> r.result,
         data |-> r.data,
         ev |-> [op |-> op, pat |-> name, res |-> r.result,
                 at |-> IF r.result = "Ok" THEN find_pattern(d, PatternOf(name)) ELSE {}]]

\* return Err(WowPatcherError::new(category, ..))
Fail(category) ==
    /\ result' = category
    /\ pc' = "done"

\* metadata.len(): the model's files are short excerpts of an executable, so
\* the size the file system reports is drawn from the values around the
\* thresholds of the checks
FileLens == {0, MIN_FILE_SIZE - 1, MIN_FILE_SIZE, MAX_FILE_SIZE, MAX_FILE_SIZE + 1}

\* lines 28-94: input_path.exists(), fs::metadata, the size checks, and
\* let mut data = fs::read(input_path)?
CheckInput ==
    /\ pc = "start"
    /\ \E exists \in BOOLEAN :
        IF ~exists
        THEN Fail("FileOperationError") /\ UNCHANGED data
        ELSE \E metadata_ok \in BOOLEAN :
            IF ~metadata_ok
            THEN Fail("FileOperationError") /\ UNCHANGED data
            ELSE \E len \in FileLens :
                IF len > MAX_FILE_SIZE THEN Fail("ValidationError") /\ UNCHANGED data
                ELSE IF len = 0 THEN Fail("ValidationError") /\ UNCHANGED data
                ELSE IF len < MIN_FILE_SIZE THEN Fail("ValidationError") /\ UNCHANGED data
                ELSE \E read_ok \in BOOLEAN :
                    IF ~read_ok
                    THEN Fail("FileOperationError") /\ UNCHANGED data
                    ELSE /\ data' = input
                         /\ pc' = "validate"
                         /\ UNCHANGED result
    /\ UNCHANGED << mvars, uvars, strip_codesign, macos, dry_run, client_type, key_config, version_url, cdns_url, layout,
                    obj, temp_data, offsets_to_validate, listed, patch_count,
                    used_unified_api, output, codesign, log >>

\* if let Some(offset) = data.find_pattern(p) { offsets_to_validate.push((offset, label)) }
Found(d, name) ==
    LET position == find_pattern(d, PatternOf(name))
    IN  IF position = {} THEN << >>
        ELSE << << CHOOSE o \in position : TRUE, Label(name) >> >>

\* the collection without the CDNs URL pattern
DiscoverOffsets_noCdns(d, ct) ==
    Found(d, "Portal")
    \o Found(d, "ConnectTo") \o Found(d, "Signature") \o Found(d, "Crypto")
    \o (IF uses_ed25519(ct) THEN Found(d, "Ed25519") ELSE << >>)
    \o Found(d, "v1") \o Found(d, "v2") \o Found(d, "v3")

\* lines 96-136
DiscoverOffsets(d, ct) ==
    Found(d, "Portal")
    \o Found(d, "ConnectTo") \o Found(d, "Signature") \o Found(d, "Crypto")
    \o (IF uses_ed25519(ct) THEN Found(d, "Ed25519") ELSE << >>)
    \o Found(d, "v1") \o Found(d, "v2") \o Found(d, "v3")
    \o Found(d, "CDNs")

\* the validation applied to the offsets of the mandatory targets only
Validate_mandatory ==
    /\ pc = "validate"
    /\ offsets_to_validate' = DiscoverOffsets(data, client_type)
    /\ LET mandatory == SelectSeq(offsets_to_validate',
                                  LAMBDA e : e[2] \in {Label("Portal"), Label("ConnectTo"),
                                                       Label("Signature"), Label("Crypto")})
       IN  IF validate_patch_offsets(obj, mandatory) # << >>
           THEN Fail("ValidationError")
           ELSE /\ pc' = IF dry_run THEN "dry_list" ELSE "portal"
                /\ UNCHANGED result
    /\ UNCHANGED << mvars, uvars, strip_codesign, macos, dry_run, client_type, key_config, version_url, cdns_url,
                    layout, obj, data, temp_data, listed, patch_count, used_unified_api,
                    output, codesign, log >>

\* lines 96-157: collect the offsets, validate_patch_offsets, then the branch
\* on dry_run
Validate ==
    /\ pc = "validate"
    /\ offsets_to_validate' = DiscoverOffsets(data, client_type)
    /\ IF validate_patch_offsets(obj, offsets_to_validate') # << >>
       THEN Fail("ValidationError")
       ELSE /\ pc' = IF dry_run THEN "dry_list" ELSE "portal"
            /\ UNCHANGED result
    /\ UNCHANGED << mvars, uvars, strip_codesign, macos, dry_run, client_type, key_config, version_url, cdns_url, layout,
                    obj, data, temp_data, listed, patch_count, used_unified_api,
                    output, codesign, log >>

\* lines 168-183: one line per offset whose section is known
RECURSIVE SectionLines(_, _, _)
SectionLines(o, offsets, n) ==
    IF n > Len(offsets) THEN << >>
    ELSE LET section == check_offset_section(o, offsets[n][1])
         IN  (IF section # {}
              THEN << [pattern |-> offsets[n][2], offset |-> offsets[n][1],
                       section |-> (CHOOSE x \in section : TRUE).name,
                       patchable |-> (CHOOSE x \in section : TRUE).is_patchable] >>
              ELSE << >>)
             \o SectionLines(o, offsets, n + 1)

DryList ==
    /\ pc = "dry_list"
    /\ listed' = SectionLines(obj, offsets_to_validate, 1)
    /\ pc' = "dry_portal"
    /\ UNCHANGED << mvars, uvars, strip_codesign, macos, dry_run, client_type, key_config, version_url, cdns_url, layout,
                    obj, data, temp_data, offsets_to_validate, patch_count,
                    used_unified_api, result, output, codesign, log >>

\* lines 188-194
DryPortal ==
    /\ pc = "dry_portal"
    /\ LET c == Call("probe", data, "Portal", empty(portal_pattern))
       IN  /\ temp_data' = c.data
           /\ log' = Append(log, c.ev)
    /\ pc' = "dry_rsa"
    /\ UNCHANGED << mvars, uvars, strip_codesign, macos, dry_run, client_type, key_config, version_url, cdns_url, layout,
                    obj, data, offsets_to_validate, listed, patch_count,
                    used_unified_api, result, output, codesign >>

\* the three RSA modulus patterns tried one after the other, whether or not
\* an earlier one was patched
RsaChain_all(op, d, key) ==
    LET c1 == Call(op, d, "ConnectTo", rsa_modulus(key))
        c2 == Call(op, c1.data, "Signature", rsa_modulus(key))
        c3 == Call(op, c2.data, "Crypto", rsa_modulus(key))
    IN  [patched |-> "Ok" \in {c1.result, c2.result, c3.result},
         data |-> c3.data, evs |-> << c1.ev, c2.ev, c3.ev >>]

\* the if / else if chain over the three RSA modulus patterns (lines 200-227
\* and 407-434): each pattern is tried on the buffer the failed calls before
\* it left behind, and the first success ends the chain
RsaChain(op, d, key) ==
    LET c1 == Call(op, d, "ConnectTo", rsa_modulus(key))
    IN  IF c1.result = "Ok"
        THEN [patched |-> TRUE, data |-> c1.data, evs |-> << c1.ev >>]
        ELSE LET c2 == Call(op, c1.data, "Signature", rsa_modulus(key))
             IN  IF c2.result = "Ok"
                 THEN [patched |-> TRUE, data |-> c2.data, evs |-> << c1.ev, c2.ev >>]
                 ELSE LET c3 == Call(op, c2.data, "Crypto", rsa_modulus(key))
                      IN  [patched |-> c3.result = "Ok", data |-> c3.data,
                           evs |-> << c1.ev, c2.ev, c3.ev >>]

\* lines 196-243
DryRsa ==
    /\ pc = "dry_rsa"
    /\ LET c == RsaChain("probe", data, key_config)
       IN  /\ temp_data' = c.data
           /\ log' = log \o c.evs
    /\ pc' = "dry_ed"
    /\ UNCHANGED << mvars, uvars, strip_codesign, macos, dry_run, client_type, key_config, version_url, cdns_url, layout,
                    obj, data, offsets_to_validate, listed, patch_count,
                    used_unified_api, result, output, codesign >>

\* lines 245-264
DryEd ==
    /\ pc = "dry_ed"
    /\ IF uses_ed25519(client_type)
       THEN LET c == Call("probe", data, "Ed25519", ed25519_public_key(key_config))
            IN  /\ temp_data' = c.data
                /\ log' = Append(log, c.ev)
       ELSE /\ temp_data' = data
            /\ UNCHANGED log
    /\ pc' = "dry_version"
    /\ UNCHANGED << mvars, uvars, strip_codesign, macos, dry_run, client_type, key_config, version_url, cdns_url, layout,
                    obj, data, offsets_to_validate, listed, patch_count,
                    used_unified_api, result, output, codesign >>

\* the nested if / else over the version URL patterns (lines 271-319 and
\* 493-533): v1 first, then v2, then v3; name is the pattern that was
\* patched ("" when none was)
VersionChain(op, d, url) ==
    LET c1 == Call(op, d, "v1",
                   create_url_replacement(unwrap_or(url, get_version_url),
                                          Len(version_url_pattern)))
    IN  IF c1.result = "Ok"
        THEN [name |-> "v1", data |-> c1.data, evs |-> << c1.ev >>]
        ELSE LET c2 == Call(op, c1.data, "v2",
                            create_url_replacement(unwrap_or(url, get_version_url),
                                                   Len(version_url_v2_pattern)))
             IN  IF c2.result = "Ok"
                 THEN [name |-> "v2", data |-> c2.data, evs |-> << c1.ev, c2.ev >>]
                 ELSE LET c3 == Call(op, c2.data, "v3",
                                     create_url_replacement(
                                         unwrap_or(url, get_unified_api_url),
                                         Len(version_url_v3_pattern)))
                      IN  [name |-> IF c3.result = "Ok" THEN "v3" ELSE "",
                           data |-> c3.data, evs |-> << c1.ev, c2.ev, c3.ev >>]

\* lines 266-353
DryVersionUrl ==
    /\ pc = "dry_version"
    /\ LET c == VersionChain("probe", data, version_url)
       IN  /\ temp_data' = c.data
           /\ log' = log \o c.evs
    /\ pc' = "dry_cdns"
    /\ UNCHANGED << mvars, uvars, strip_codesign, macos, dry_run, client_type, key_config, version_url, cdns_url, layout,
                    obj, data, offsets_to_validate, listed, patch_count,
                    used_unified_api, result, output, codesign >>

\* the CDNs probe made on the buffer itself, without the clone
DryCdns_inplace ==
    /\ pc = "dry_cdns"
    /\ LET c == Call("probe", data, "CDNs",
                     create_url_replacement(unwrap_or(cdns_url, get_cdns_url),
                                            Len(cdns_url_pattern)))
       IN  /\ data' = c.data
           /\ log' = Append(log, c.ev)
    /\ result' = "Ok"
    /\ pc' = "done"
    /\ UNCHANGED << mvars, uvars, strip_codesign, macos, dry_run, client_type, key_config, version_url, cdns_url, layout,
                    obj, temp_data, offsets_to_validate, listed, patch_count,
                    used_unified_api, output, codesign >>

\* lines 355-377: the CDNs probe, the closing lines, return Ok(())
DryCdns ==
    /\ pc = "dry_cdns"
    /\ LET c == Call("probe", data, "CDNs",
                     create_url_replacement(unwrap_or(cdns_url, get_cdns_url),
                                            Len(cdns_url_pattern)))
       IN  /\ temp_data' = c.data
           /\ log' = Append(log, c.ev)
    /\ result' = "Ok"
    /\ pc' = "done"
    /\ UNCHANGED << mvars, uvars, strip_codesign, macos, dry_run, client_type, key_config, version_url, cdns_url, layout,
                    obj, data, offsets_to_validate, listed, patch_count,
                    used_unified_api, output, codesign >>

\* the hostname-removal target going on to the next target after a miss
PatchPortal_continue ==
    /\ pc = "portal"
    /\ LET c == Call("patch", data, "Portal", empty(portal_pattern))
       IN  /\ data' = c.data
           /\ log' = Append(log, c.ev)
           /\ patch_count' = IF c.result = "Ok" THEN patch_count + 1 ELSE patch_count
    /\ pc' = "rsa"
    /\ UNCHANGED << mvars, uvars, strip_codesign, macos, dry_run, client_type, key_config, version_url, cdns_url, layout,
                    obj, temp_data, offsets_to_validate, listed, used_unified_api,
                    result, output, codesign >>

\* lines 386-401: the hostname-removal target, mandatory
PatchPortal ==
    /\ pc = "portal"
    /\ LET c == Call("patch", data, "Portal", empty(portal_pattern))
       IN  /\ data' = c.data
           /\ log' = Append(log, c.ev)
           /\ IF c.result # "Ok"
              THEN /\ Fail("PatchingError")
                   /\ UNCHANGED patch_count
              ELSE /\ patch_count' = patch_count + 1
                   /\ pc' = "rsa"
                   /\ UNCHANGED result
    /\ UNCHANGED << mvars, uvars, strip_codesign, macos, dry_run, client_type, key_config, version_url, cdns_url, layout,
                    obj, temp_data, offsets_to_validate, listed, used_unified_api,
                    output, codesign >>

\* the RSA key target treated as optional: a miss is not an error
PatchRsa_optional ==
    /\ pc = "rsa"
    /\ LET c == RsaChain("patch", data, key_config)
       IN  /\ data' = c.data
           /\ log' = log \o c.evs
           /\ patch_count' = IF c.patched THEN patch_count + 1 ELSE patch_count
    /\ pc' = "ed"
    /\ UNCHANGED << mvars, uvars, strip_codesign, macos, dry_run, client_type, key_config, version_url, cdns_url, layout,
                    obj, temp_data, offsets_to_validate, listed, used_unified_api,
                    result, output, codesign >>

\* lines 403-459: the RSA key target, mandatory
PatchRsa ==
    /\ pc = "rsa"
    /\ LET c == RsaChain("patch", data, key_config)
       IN  /\ data' = c.data
           /\ log' = log \o c.evs
           /\ IF ~c.patched
              THEN /\ Fail("PatchingError")
                   /\ UNCHANGED patch_count
              ELSE /\ patch_count' = patch_count + 1
                   /\ pc' = "ed"
                   /\ UNCHANGED result
    /\ UNCHANGED << mvars, uvars, strip_codesign, macos, dry_run, client_type, key_config, version_url, cdns_url, layout,
                    obj, temp_data, offsets_to_validate, listed, used_unified_api,
                    output, codesign >>

\* the Ed25519 key target passed over without a patch call
PatchEd_skip ==
    /\ pc = "ed"
    /\ pc' = "version"
    /\ UNCHANGED << mvars, uvars, strip_codesign, macos, dry_run, client_type, key_config, version_url, cdns_url,
                    layout, obj, data, temp_data, offsets_to_validate, listed, patch_count,
                    used_unified_api, result, output, codesign, log >>

\* lines 461-486: the Ed25519 key target, optional, only for clients that use it
PatchEd ==
    /\ pc = "ed"
    /\ IF uses_ed25519(client_type)
       THEN LET c == Call("patch", data, "Ed25519", ed25519_public_key(key_config))
            IN  /\ data' = c.data
                /\ log' = Append(log, c.ev)
                /\ patch_count' = IF c.result = "Ok" THEN patch_count + 1 ELSE patch_count
       ELSE UNCHANGED << data, log, patch_count >>
    /\ pc' = "version"
    /\ UNCHANGED << mvars, uvars, strip_codesign, macos, dry_run, client_type, key_config, version_url, cdns_url, layout,
                    obj, temp_data, offsets_to_validate, listed, used_unified_api,
                    result, output, codesign >>

\* lines 488-564: the version URL target, optional
PatchVersionUrl ==
    /\ pc = "version"
    /\ LET c == VersionChain("patch", data, version_url)
       IN  /\ data' = c.data
           /\ log' = log \o c.evs
           /\ used_unified_api' = (c.name = "v3")
           /\ patch_count' = IF c.name # "" THEN patch_count + 1 ELSE patch_count
    /\ pc' = "cdns"
    /\ UNCHANGED << mvars, uvars, strip_codesign, macos, dry_run, client_type, key_config, version_url, cdns_url, layout,
                    obj, temp_data, offsets_to_validate, listed, result, output, codesign >>

\* the CDNs URL target counted whether or not it was overwritten
PatchCdns_counted ==
    /\ pc = "cdns"
    /\ IF ~used_unified_api
       THEN LET c == Call("patch", data, "CDNs",
                          create_url_replacement(unwrap_or(cdns_url, get_cdns_url),
                                                 Len(cdns_url_pattern)))
            IN  /\ data' = c.data
                /\ log' = Append(log, c.ev)
       ELSE UNCHANGED << data, log >>
    /\ patch_count' = patch_count + 1
    /\ pc' = "output_dir"
    /\ UNCHANGED << mvars, uvars, strip_codesign, macos, dry_run, client_type, key_config,
                    version_url, cdns_url, layout, obj, temp_data, offsets_to_validate,
                    listed, used_unified_api, result, output, codesign >>

\* lines 566-591: the CDNs URL target, optional, skipped after the unified pattern
PatchCdns ==
    /\ pc = "cdns"
    /\ IF ~used_unified_api
       THEN LET c == Call("patch", data, "CDNs",
                          create_url_replacement(unwrap_or(cdns_url, get_cdns_url),
                                                 Len(cdns_url_pattern)))
            IN  /\ data' = c.data
                /\ log' = Append(log, c.ev)
                /\ patch_count' = IF c.result = "Ok" THEN patch_count + 1 ELSE patch_count
       ELSE UNCHANGED << data, log, patch_count >>
    /\ pc' = "output_dir"
    /\ UNCHANGED << mvars, uvars, strip_codesign, macos, dry_run, client_type, key_config, version_url, cdns_url, layout,
                    obj, temp_data, offsets_to_validate, listed, used_unified_api,
                    result, output, codesign >>

\* lines 593-602: the output directory must exist
CheckOutputDir ==
    /\ pc = "output_dir"
    /\ \E parent_exists \in BOOLEAN :
        IF ~parent_exists THEN Fail("FileOperationError")
        ELSE /\ pc' = "write"
             /\ UNCHANGED result
    /\ UNCHANGED << mvars, uvars, strip_codesign, macos, dry_run, client_type, key_config, version_url, cdns_url, layout,
                    obj, data, temp_data, offsets_to_validate, listed, patch_count,
                    used_unified_api, output, codesign, log >>

\* the write that leaves the whole buffer in the file also when it fails
WriteOutput_whole ==
    /\ pc = "write"
    /\ \E write_ok \in BOOLEAN :
        /\ output' = {data}
        /\ IF write_ok
           THEN /\ pc' = "permissions"
                /\ UNCHANGED result
           ELSE Fail("FileOperationError")
    /\ UNCHANGED << mvars, uvars, strip_codesign, macos, dry_run, client_type, key_config,
                    version_url, cdns_url, layout, obj, data, temp_data, offsets_to_validate,
                    listed, patch_count, used_unified_api, codesign, log >>

\* lines 604-611: fs::write(output_path, data).  The call creates or
\* truncates the file and then writes the buffer; when it fails the file is
\* as it was (the file could not be opened) or holds the bytes written
\* before the failure: none, or a proper prefix of the buffer
WriteOutput ==
    /\ pc = "write"
    /\ \E write_ok \in BOOLEAN :
        IF write_ok
        THEN /\ output' = {data}
             /\ pc' = "permissions"
             /\ UNCHANGED result
        ELSE /\ Fail("FileOperationError")
             /\ output' \in {output, {<< >>}, {SubSeq(data, 1, Len(data) - 1)}}
    /\ UNCHANGED << mvars, uvars, strip_codesign, macos, dry_run, client_type, key_config,
                    version_url, cdns_url, layout, obj, data, temp_data, offsets_to_validate,
                    listed, patch_count, used_unified_api, codesign, log >>

\* lines 613-634: #[cfg(unix)] fs::metadata and fs::set_permissions(0o755)
SetPermissions ==
    /\ pc = "permissions"
    /\ \E unix \in BOOLEAN :
        IF ~unix
        THEN /\ pc' = "codesign"
             /\ UNCHANGED result
        ELSE \E metadata_ok \in BOOLEAN :
            IF ~metadata_ok THEN Fail("FileOperationError")
            ELSE \E set_ok \in BOOLEAN :
                IF ~set_ok THEN Fail("FileOperationError")
                ELSE /\ pc' = "codesign"
                     /\ UNCHANGED result
    /\ UNCHANGED << mvars, uvars, strip_codesign, macos, dry_run, client_type, key_config, version_url, cdns_url, layout,
                    obj, data, temp_data, offsets_to_validate, listed, patch_count,
                    used_unified_api, output, codesign, log >>

\* the stripping step calling the collaborator whether or not it was requested
StripCodesign_unrequested ==
    /\ pc = "codesign"
    /\ \E requested \in (IF strip_codesign = {} THEN BOOLEAN ELSE strip_codesign),
          target \in (IF macos = {} THEN BOOLEAN ELSE macos) :
        /\ strip_codesign' = {requested}
        /\ macos' = {target}
        /\ IF target
           THEN /\ codesign' = codesign + 1
                /\ \E strip_ok \in BOOLEAN :
                       result' = IF strip_ok THEN "Ok" ELSE "PlatformError"
           ELSE /\ UNCHANGED codesign
                /\ result' = "Ok"
    /\ pc' = "done"
    /\ UNCHANGED << mvars, uvars, dry_run, client_type, key_config, version_url, cdns_url, layout,
                    obj, data, temp_data, offsets_to_validate, listed, patch_count,
                    used_unified_api, output, log >>

\* lines 636-655: strip_codesign && cfg!(target_os = "macos") &&
\* remove_codesigning_signature(..) fails; then the closing report and Ok(())
StripCodesign ==
    /\ pc = "codesign"
    /\ \E requested \in (IF strip_codesign = {} THEN BOOLEAN ELSE strip_codesign),
          target \in (IF macos = {} THEN BOOLEAN ELSE macos) :
        /\ strip_codesign' = {requested}
        /\ macos' = {target}
        /\ IF requested /\ target
           THEN /\ codesign' = codesign + 1
                /\ \E strip_ok \in BOOLEAN :
                       result' = IF strip_ok THEN "Ok" ELSE "PlatformError"
           ELSE /\ UNCHANGED codesign
                /\ result' = "Ok"
    /\ pc' = "done"
    /\ UNCHANGED << mvars, uvars, dry_run, client_type, key_config, version_url, cdns_url, layout,
                    obj, data, temp_data, offsets_to_validate, listed, patch_count,
                    used_unified_api, output, log >>

Next ==
    \/ CheckInput
    \/ Validate
    \/ DryList
    \/ DryPortal
    \/ DryRsa
    \/ DryEd
    \/ DryVersionUrl
    \/ DryCdns
    \/ PatchPortal
    \/ PatchRsa
    \/ PatchEd
    \/ PatchVersionUrl
    \/ PatchCdns
    \/ CheckOutputDir
    \/ WriteOutput
    \/ SetPermissions
    \/ StripCodesign

Spec == Init /\ [][Next]_vars

\* ------------------------------------------------------------------------
\* Properties of the matcher (checked under SpecMatcher)
\* ------------------------------------------------------------------------
\* pattern p occurs in buffer b at offset i, under wildcard semantics
Occurs(b, p, i) ==
    /\ i + Len(p) <= Len(b)
    /\ \A j \in 0..(Len(p) - 1) : p[j + 1] # WILDCARD => b[i + j + 1] = p[j + 1]

Occurrences(b, p) == {i \in 0..Len(b) : Occurs(b, p, i)}

Lowest(S) == CHOOSE i \in S : \A k \in S : i <= k

\* find and apply have nothing to match: empty pattern, pattern longer than
\* the buffer, or no occurrence
NoMatch(b, p) == Len(p) = 0 \/ Len(p) > Len(b) \/ Occurrences(b, p) = {}

\* C1: find(buffer, pattern) returns the lowest offset at which every
\* non-wildcard pattern position equals the buffer byte, and none when there
\* is no such offset, when the pattern is empty or when it is longer than
\* the buffer.
C1_FindLowestMatch ==
    m_result # "none" =>
        IF NoMatch(m_before, m_find)
        THEN m_position = {}
        ELSE m_position = {Lowest(Occurrences(m_before, m_find))}

\* a find that skipped an earlier candidate offset, matched through a
\* wildcard, and has a later occurrence behind it
C1_Witness ==
    /\ m_result = "Found"
    /\ m_position = {1}
    /\ m_find[1] = WILDCARD
    /\ Cardinality(Occurrences(m_before, m_find)) > 1

\* C2: apply returns a PatchingError when the buffer is empty, the pattern
\* is empty, the pattern is longer than the buffer or the pattern has no
\* match, and then leaves the buffer unchanged; in all other cases it
\* returns success.
C2_ApplyErrors ==
    m_result \in {"Ok", "PatchingError"} =>
        IF Len(m_before) = 0 \/ NoMatch(m_before, m_find)
        THEN m_result = "PatchingError" /\ m_data = m_before
        ELSE m_result = "Ok"

\* an apply that failed only because the pattern does not occur
C2_Witness ==
    /\ m_result = "PatchingError"
    /\ Len(m_find) > 0
    /\ Len(m_find) < Len(m_before)
    /\ Len(m_replace) > 0
    /\ m_data = m_before

\* C3: on success apply overwrites exactly the k = min(len(replacement),
\* len(pattern)) bytes at the leftmost match with the first k bytes of the
\* replacement and leaves every other byte of the buffer unchanged.
C3_ApplyFrame ==
    m_result = "Ok" =>
        LET o == Lowest(Occurrences(m_before, m_find))
            k == IF Len(m_replace) < Len(m_find) THEN Len(m_replace) ELSE Len(m_find)
        IN  /\ Len(m_data) = Len(m_before)
            /\ \A i \in 0..(Len(m_before) - 1) :
                m_data[i + 1] = IF o <= i /\ i < o + k
                                THEN m_replace[i - o + 1]
                                ELSE m_before[i + 1]

\* a successful apply with a replacement shorter than the pattern, on a
\* buffer that holds the pattern a second time: the tail of the match and
\* the later occurrence stay as they were
C3_Witness ==
    /\ m_result = "Ok"
    /\ Len(m_replace) > 0
    /\ Len(m_replace) < Len(m_find)
    /\ m_data # m_before
    /\ Cardinality(Occurrences(m_before, m_find)) > 1

\* ------------------------------------------------------------------------
\* Properties of execute_patch (checked under Spec)
\* ------------------------------------------------------------------------
RsaNames == {"ConnectTo", "Signature", "Crypto"}
VersionNames == {"v1", "v2", "v3"}

\* the logical target a pattern belongs to
TargetOf(name) ==
    CASE name = "Portal" -> "hostname"
      [] name \in RsaNames -> "rsa"
      [] name = "Ed25519" -> "ed25519"
      [] name \in VersionNames -> "version_url"
      [] name = "CDNs" -> "cdns_url"

\* where the input file holds a pattern: {} or {lowest offset}
InInput(name) == find_pattern(input, PatternOf(name))

\* the patterns the run looks for: all nine, the Ed25519 pattern only for
\* the client types that use it
SearchedNames ==
    {PatternNames[k] : k \in 1..Len(PatternNames)}
        \ (IF uses_ed25519(client_type) THEN {} ELSE {"Ed25519"})

\* every offset at which a searched pattern is found lies in a section that
\* is known and patchable
AllOffsetsPatchable ==
    \A n \in SearchedNames : \A o \in InInput(n) :
        \E sec \in check_offset_section(obj, o) : sec.is_patchable

\* the file was read: the run got past the file checks
FileRead == data # << >>

\* the patch calls of the log that overwrote something
Written == {i \in 1..Len(log) : log[i].op = "patch" /\ log[i].res = "Ok"}

Attempted(name) == \E i \in 1..Len(log) : log[i].op = "patch" /\ log[i].pat = name

\* C4: in apply mode nothing is overwritten and nothing is persisted until
\* every offset found by any candidate pattern has passed section
\* validation; if one of them is unclassifiable or non-patchable the run
\* ends in a validation error with the buffer identical to the input.
C4_ValidateBeforeWrite ==
    ~dry_run =>
        /\ ~FileRead => log = << >> /\ output = {}
        /\ pc = "validate" => data = input /\ log = << >> /\ output = {}
        /\ (FileRead /\ pc # "validate" /\ ~AllOffsetsPatchable) =>
              /\ pc = "done"
              /\ result = "ValidationError"
              /\ data = input
              /\ log = << >>
              /\ output = {}

\* an apply-mode run stopped by the validation of an offset that only a
\* fallback or optional pattern contributes
C4_Witness ==
    /\ ~dry_run
    /\ pc = "done"
    /\ result = "ValidationError"
    /\ Len(offsets_to_validate) > 2
    /\ data = input
    /\ ~AllOffsetsPatchable

\* C5: a dry run never aborts because of unpatchable or unclassifiable
\* offsets or missing targets: once the file checks have passed it reports
\* the offsets and returns success.
C5_DryRunNeverAborts ==
    (dry_run /\ pc = "done" /\ FileRead) => result = "Ok"

\* C6: a dry run mutates nothing and persists nothing: the buffer equals the
\* input bytes, no output file is written and the code-signature
\* collaborator is not invoked; the probes work on a clone.
C6_DryRunNoMutation ==
    dry_run =>
        /\ data \in {<< >>, input}
        /\ output = {}
        /\ codesign = 0
        /\ \A i \in 1..Len(log) : log[i].op = "probe"

\* a finished dry run whose last probe changed the clone
C6_Witness ==
    /\ dry_run
    /\ pc = "done"
    /\ result = "Ok"
    /\ data = input
    /\ temp_data # data
    /\ Len(log) > 0

\* the candidates of one target of which a run overwrote at most one
OneOfGroup(G) ==
    /\ \A i, j \in 1..Len(log) :
        (i < j /\ log[i].pat \in G /\ log[i].res = "Ok") => log[j].pat \notin G
    /\ (\E i \in Written : log[i].pat \in G) =>
        \A n \in G : (~\E i \in Written : log[i].pat = n) =>
            \A o \in InInput(n) : Occurs(data, PatternOf(n), o)

\* C7: for a target with several candidate patterns the orchestrator stops
\* at the first candidate that matches: at most one candidate is overwritten
\* in an apply-mode run, and the candidates after the first match are
\* neither tried nor modified, even when they are present in the buffer.
C7_FirstMatchStops ==
    ~dry_run => OneOfGroup(RsaNames) /\ OneOfGroup(VersionNames)

\* an apply-mode run that overwrote the ConnectTo pattern of a file that
\* holds the Signature pattern too
C7_Witness ==
    /\ ~dry_run
    /\ pc = "ed"
    /\ \E i \in Written : log[i].pat = "ConnectTo"
    /\ InInput("Signature") # {}

\* a mandatory target has no candidate pattern in the input
MandatoryMissing ==
    \/ InInput("Portal") = {}
    \/ \A n \in RsaNames : InInput(n) = {}

\* the targets the run has overwritten
AppliedTargets == {TargetOf(log[i].pat) : i \in Written}

C9_AbortOnMandatoryMiss ==
    ~dry_run =>
        /\ (Len(log) >= 1 /\ log[1].res # "Ok") =>
              /\ Len(log) = 1
              /\ pc = "done" /\ result = "PatchingError"
              /\ data = input /\ output = {}
        /\ \A i \in 1..Len(log) :
              (log[i].pat = "Crypto" /\ log[i].res # "Ok") =>
                  /\ i = Len(log)
                  /\ pc = "done" /\ result = "PatchingError"
                  /\ output = {}
        /\ (pc \in {"output_dir", "write", "permissions", "codesign"}
            \/ (pc = "done" /\ log # << >> /\ result # "PatchingError")) =>
              /\ uses_ed25519(client_type) => Attempted("Ed25519")
              /\ Attempted("v1")
              /\ ~used_unified_api => Attempted("CDNs")

\* an apply-mode run that stopped at the RSA target although the file holds
\* the Ed25519 pattern and a version URL pattern
C9_Witness ==
    /\ ~dry_run
    /\ pc = "done"
    /\ result = "PatchingError"
    /\ Len(log) = 4
    /\ uses_ed25519(client_type)
    /\ InInput("Ed25519") # {}
    /\ InInput("v2") # {}

\* C10: the unified endpoint pattern (v3) supersedes the legacy patterns:
\* when it matches in the buffer, an apply-mode run overwrites neither the
\* legacy version URL patterns (v1, v2) nor the legacy CDNs URL pattern, even
\* when those strings are present too.
C10_UnifiedSupersedesLegacy ==
    (~dry_run /\ FileRead /\ InInput("v3") # {}) =>
        \A i \in Written : log[i].pat \notin {"v1", "v2", "CDNs"}

\* a pattern was passed to patch, on the buffer or on the dry run's clone
Tried(name) == \E i \in 1..Len(log) : log[i].pat = name

\* the offsets collected for validation hold an entry for the pattern
Collected(name) ==
    \E k \in 1..Len(offsets_to_validate) : offsets_to_validate[k][2] = Label(name)

\* C11: the Ed25519 key target is gated by the build-variant predicate.  For
\* a client type that does not use Ed25519 (Classic Era) the pattern is never
\* passed to patch, never added to the offsets to validate, never overwritten
\* and never counted, in apply mode and in dry-run mode, even when its bytes
\* occur in the file; for every other client type it is searched, both when
\* the offsets are collected and when the targets are processed.
C11_Ed25519Gated ==
    /\ client_type = "ClassicEra" =>
          /\ ~Tried("Ed25519")
          /\ ~Collected("Ed25519")
          /\ FileRead => \A o \in InInput("Ed25519") :
                            /\ Occurs(data, PatternOf("Ed25519"), o)
                            /\ dry_run /\ temp_data # << >> =>
                                   Occurs(temp_data, PatternOf("Ed25519"), o)
          /\ "ed25519" \notin AppliedTargets
          /\ patch_count = Cardinality(AppliedTargets)
    /\ client_type \in {"Retail", "Classic", "Unknown"} =>
          /\ (FileRead /\ pc # "validate") =>
                (Collected("Ed25519") <=> InInput("Ed25519") # {})
          /\ pc \in {"version", "cdns", "output_dir", "write", "permissions",
                     "codesign", "dry_version", "dry_cdns"} => Tried("Ed25519")
          /\ (pc = "done" /\ result = "Ok") => Tried("Ed25519")

\* a Classic Era run that succeeds in apply mode on a file that holds the
\* bytes of the Ed25519 pattern
C11_Witness ==
    /\ client_type = "ClassicEra"
    /\ ~dry_run
    /\ pc = "done"
    /\ result = "Ok"
    /\ InInput("Ed25519") # {}
    /\ \E o \in InInput("Ed25519") : Occurs(data, PatternOf("Ed25519"), o)

\* the offset is unclassifiable or lies in a section that is not patchable
Rejectable(o) == ~\E sec \in check_offset_section(obj, o) : sec.is_patchable

\* C12: in apply mode a validation rejection of any discovered offset is
\* fatal whatever the status of the target: if a candidate pattern of any
\* target, mandatory or optional, a fallback candidate that would not be
\* written included, is found at an offset that is unclassifiable or not
\* patchable, the run returns a validation error and performs no write.
C12_RejectionIsFatal ==
    (~dry_run /\ FileRead /\ pc # "validate") =>
        \A n \in SearchedNames : \A o \in InInput(n) :
            Rejectable(o) =>
                /\ Collected(n)
                /\ pc = "done"
                /\ result = "ValidationError"
                /\ Written = {}
                /\ data = input
                /\ output = {}

\* an apply-mode run stopped because the Signature pattern lies in a rejected
\* section, although the ConnectTo pattern, which is tried before it and
\* would be the one written, and the portal pattern are in patchable sections
C12_Witness ==
    /\ ~dry_run
    /\ pc = "done"
    /\ result = "ValidationError"
    /\ \E o \in InInput("Signature") : Rejectable(o)
    /\ \A n \in {"Portal", "ConnectTo"} :
          InInput(n) # {} /\ \A o \in InInput(n) : ~Rejectable(o)

Targets == {"hostname", "rsa", "ed25519", "version_url", "cdns_url"}

CandidatesOf(t) == {n \in SearchedNames : TargetOf(n) = t}

\* The state of a logical target, read off the run: NotAttempted until the
\* offsets are collected (and for good when the target is not searched);
\* then NotFound when none of its candidates was found and Matched when one
\* was; Rejected when the validation refused an offset of one of its
\* candidates; Applied when one of its candidates has been overwritten.
\* Searching is the inside of the step that collects the offsets.
TargetState(t) ==
    IF ~FileRead \/ pc = "validate" \/ CandidatesOf(t) = {} THEN "NotAttempted"
    ELSE IF t \in AppliedTargets THEN "Applied"
    ELSE IF \A n \in CandidatesOf(t) : ~Collected(n) THEN "NotFound"
    ELSE IF /\ result = "ValidationError"
            /\ \E n \in CandidatesOf(t) : \E k \in 1..Len(offsets_to_validate) :
                  /\ offsets_to_validate[k][2] = Label(n)
                  /\ Rejectable(offsets_to_validate[k][1])
         THEN "Rejected"
    ELSE "Matched"

\* the steps of the state machine; the step that collects the offsets and
\* validates them takes a target from NotAttempted through Searching to
\* Matched or NotFound and, when the validation refuses it, on to Rejected
TargetStep(from, to) ==
    \/ from = to
    \/ from = "NotAttempted" /\ to \in {"Matched", "NotFound", "Rejected"}
    \/ from = "Matched" /\ to = "Applied" /\ ~dry_run

\* the run went through all its targets: it was stopped neither by the
\* validation nor by a missing mandatory target
Completed ==
    /\ pc = "done"
    /\ FileRead
    /\ result \notin {"ValidationError", "PatchingError"}

Generation(name) ==
    CASE name = "v1" -> 1
      [] name = "v2" -> 2
      [] name = "v3" -> 3

\* C14: the candidate patterns of a target are tried in one fixed priority
\* order, the pattern of the most recent build variant first: for the
\* version URL target v3 is tried before v2 and v2 before v1, so that when
\* several candidates are present in the file the most recent one is the one
\* written.
C14_MostRecentFirst ==
    /\ \A i, j \in 1..Len(log) :
          (i < j /\ log[i].pat \in VersionNames /\ log[j].pat \in VersionNames) =>
              Generation(log[i].pat) > Generation(log[j].pat)
    /\ \A i \in 1..Len(log) :
          (log[i].pat \in VersionNames /\ log[i].res = "Ok") =>
              \A n \in VersionNames :
                  Generation(n) > Generation(log[i].pat) => InInput(n) = {}

\* ------------------------------------------------------------------------
\* SpecSection: check_offset_section and validate_patch_offsets called on
\* the section tables of small files (src/binary/section.rs)
\* ------------------------------------------------------------------------
\* the offsets queried are 0..MaxOffset, the lists validated hold up to
\* MaxOffsets of them
MaxOffset == 3
MaxOffsets == 2

\* a name field whose bytes after the first zero are not zero: ".data\0x\0"
data_nul_x == << 46, 100, 97, 116, 97, 0, 120, 0 >>

PESectionNames == {name8(rdata), name8(dot_data), name8(dot_text), data_nul_x}

PESections ==
    [name : PESectionNames, pointer_to_raw_data : 0..2, size_of_raw_data : 0..2]

PEObjects == {[kind |-> "PE", sections |-> t] : t \in SeqsUpTo(PESections, 2)}

\* segment.name() and sect.name(): Ok(name), or Err ({}) for a name field
\* that is not UTF-8
SegmentNames == {{"__TEXT"}, {"__DATA"}, {"__DATA_CONST"}, {"__LINKEDIT"}, {}}
SectionNames == {{"__const"}, {"__text"}, {}}

MachSections == [name : SectionNames, offset : 0..2, size : {1}]

\* segments with any table of up to two sections, alone in their file
MachSegments ==
    [name : SegmentNames, fileoff : {0, 1}, filesize : {2},
     sections : {{}} \cup {{t} : t \in SeqsUpTo(MachSections, 2)}]

\* segments with at most one section, at their first byte, for the files
\* with two segments
SectionTablesAt(f) ==
    {{}, {<< >>}} \cup
    {{<< [name |-> {sn}, offset |-> f, size |-> 1] >>} : sn \in {"__const", "__text"}}

MachSegmentsSmall ==
    UNION {{[name |-> n, fileoff |-> f, filesize |-> 2, sections |-> t] :
                n \in SegmentNames, t \in SectionTablesAt(f)} : f \in {0, 1}}

MachObjects ==
    {[kind |-> "Mach", arch |-> "Fat"]} \cup
    {[kind |-> "Mach", arch |-> "Binary", segments |-> << >>]} \cup
    {[kind |-> "Mach", arch |-> "Binary", segments |-> << g >>] : g \in MachSegments} \cup
    {[kind |-> "Mach", arch |-> "Binary", segments |-> << g, h >>] :
        g \in MachSegmentsSmall, h \in MachSegmentsSmall}

Objects == PEObjects \cup MachObjects \cup {[kind |-> "Other"], [kind |-> "Unparsed"]}

\* the lists validated: up to MaxOffsets offsets, labelled in the order of
\* the patterns of execute_patch
OffsetLists ==
    {[k \in 1..Len(os) |-> << os[k], Label(PatternNames[k]) >>] :
        os \in SeqsUpTo(0..MaxOffset, MaxOffsets)}

SectionInit ==
    /\ MatcherIdle /\ OrchestratorIdle /\ BuilderIdle /\ KeysIdle /\ PatcherIdle /\ PatternsIdle
    /\ s_obj \in Objects
    /\ s_offset = 0
    /\ s_offsets = << >>
    /\ s_section = {}
    /\ s_errors = << >>
    /\ s_op = "none"

\* check_offset_section(data, offset)
QueryCall ==
    /\ s_op = "none"
    /\ \E offset \in 0..MaxOffset :
        /\ s_offset' = offset
        /\ s_section' = check_offset_section(s_obj, offset)
    /\ s_op' = "query"
    /\ UNCHANGED << s_obj, s_offsets, s_errors, mvars, xvars, bvars, kvars, pvars, cvars >>

\* validate_patch_offsets(data, &offsets)
ValidateCall ==
    /\ s_op = "none"
    /\ \E offsets \in OffsetLists :
        /\ s_offsets' = offsets
        /\ s_errors' = validate_patch_offsets(s_obj, offsets)
    /\ s_op' = "validate"
    /\ UNCHANGED << s_obj, s_offset, s_section, mvars, xvars, bvars, kvars, pvars, cvars >>

SectionNext == QueryCall \/ ValidateCall

SpecSection == SectionInit /\ [][SectionNext]_vars

\* ------------------------------------------------------------------------
\* Properties of the section queries (checked under SpecSection)
\* ------------------------------------------------------------------------
\* the classification of the offset is missing or not patchable
Refused(object, offset) ==
    ~\E sec \in check_offset_section(object, offset) : sec.is_patchable

\* errors holds exactly one message for each refused entry of offsets, in
\* the order of offsets
OneMessagePerRefusal(object, offsets, errors) ==
    LET bad == {k \in 1..Len(offsets) : Refused(object, offsets[k][1])}
        place(k) == Cardinality({j \in bad : j <= k})
    IN  /\ Len(errors) = Cardinality(bad)
        /\ \A k \in bad :
              /\ errors[place(k)].offset = offsets[k][1]
              /\ errors[place(k)].pattern = offsets[k][2]
              /\ errors[place(k)].why =
                    IF check_offset_section(object, offsets[k][1]) = {}
                    THEN "unable to determine section"
                    ELSE "non-patchable section"

\* C15: validate_offsets(buffer, offsets) produces exactly one message for
\* each listed offset whose section classification is missing or not
\* patchable and none for the others; it fails, with the messages in input
\* order, if and only if there is such an offset, and succeeds otherwise,
\* for the empty list too.  It does not modify the buffer.
C15_ValidateOffsets ==
    [][(s_op = "none" /\ s_op' = "validate") =>
          /\ s_obj' = s_obj
          /\ OneMessagePerRefusal(s_obj, s_offsets', s_errors')
          /\ (s_errors' # << >>) <=>
                \E k \in 1..Len(s_offsets') : Refused(s_obj, s_offsets'[k][1])
          /\ s_offsets' = << >> => s_errors' = << >>]_vars

\* a validation of two offsets of a PE file that refused both, the first
\* because it lies in no section and the second because its section is not
\* patchable
C15_Witness ==
    /\ s_op = "validate"
    /\ s_obj.kind = "PE"
    /\ Len(s_offsets) = 2
    /\ Len(s_errors) = 2
    /\ s_errors[1].why = "unable to determine section"
    /\ s_errors[2].why = "non-patchable section"

\* the sections of a PE table whose half-open file range holds the offset
Holding(sections, offset) ==
    {k \in 1..Len(sections) :
        /\ sections[k].pointer_to_raw_data <= offset
        /\ offset < sections[k].pointer_to_raw_data + sections[k].size_of_raw_data}

\* C16: for a PE file the section query for offset o returns the first
\* section in table order whose file range [pointer_to_raw_data,
\* pointer_to_raw_data + size_of_raw_data) holds o, with is_patchable true
\* exactly when the name of that section is ".rdata" or ".data", and none
\* when o lies outside the file range of every section.
C16_PESectionQuery ==
    (s_op = "query" /\ s_obj.kind = "PE") =>
        LET holding == Holding(s_obj.sections, s_offset)
        IN  IF holding = {} THEN s_section = {}
            ELSE LET first == CHOOSE k \in holding : \A j \in holding : k <= j
                     section == s_obj.sections[first]
                 IN  \E info \in s_section :
                        /\ s_section = {info}
                        /\ info.file_offset = section.pointer_to_raw_data
                        /\ name8(info.name) = section.name
                        /\ info.is_patchable <=>
                              section.name \in {name8(rdata), name8(dot_data)}

\* a query answered with the first of two sections that both hold the
\* offset: the first is the code section, the second a data section
C16_Witness ==
    /\ s_op = "query"
    /\ s_obj.kind = "PE"
    /\ Len(s_obj.sections) = 2
    /\ Holding(s_obj.sections, s_offset) = {1, 2}
    /\ s_obj.sections[1].name = name8(dot_text)
    /\ s_obj.sections[2].name = name8(rdata)
    /\ \E info \in s_section : ~info.is_patchable

\* the segments of a table whose file range holds the offset
SegmentsHolding(segments, offset) ==
    {k \in 1..Len(segments) :
        segments[k].fileoff <= offset /\ offset < segments[k].fileoff + segments[k].filesize}

\* the sections of a section table whose file range holds the offset
SectionsHolding(table, offset) ==
    {k \in 1..Len(table) : table[k].offset <= offset /\ offset < table[k].offset + table[k].size}

Least(S) == CHOOSE k \in S : \A j \in S : k <= j

\* the section table of a segment, empty when segment.sections() fails
TableOf(segment) ==
    IF segment.sections = {} THEN << >> ELSE CHOOSE t \in segment.sections : TRUE

\* the answer for an offset held by a section of its segment
InSection(info, segment, sect) ==
    \E gn \in segment.name : \E sn \in sect.name :
        /\ info.name = gn \o "." \o sn
        /\ info.file_offset = sect.offset
        /\ info.is_patchable <=>
              \/ gn \in {"__DATA", "__DATA_CONST"}
              \/ (gn = "__TEXT" /\ sn = "__const")

\* the answer for an offset held by a segment and by none of its sections
InSegmentOnly(info, segment) ==
    \E gn \in segment.name :
        /\ info.name = gn
        /\ info.file_offset = segment.fileoff
        /\ info.is_patchable <=> gn \in {"__DATA", "__DATA_CONST"}

\* C17 as stated: for a Mach-O file an offset inside a section of its
\* containing segment is reported under the name "{segment}.{section}",
\* patchable exactly when the segment is __DATA or __DATA_CONST or the pair
\* is __TEXT/__const; an offset inside a segment and inside none of its
\* sections is reported under the segment name, patchable exactly when the
\* segment is __DATA or __DATA_CONST; an offset outside every segment, and
\* any offset of a fat file, yields none.
C17_MachOSectionQuery ==
    (s_op = "query" /\ s_obj.kind = "Mach") =>
        IF s_obj.arch = "Fat" THEN s_section = {}
        ELSE LET holding == SegmentsHolding(s_obj.segments, s_offset)
             IN  IF holding = {} THEN s_section = {}
                 ELSE LET segment == s_obj.segments[Least(holding)]
                          table == TableOf(segment)
                          inside == SectionsHolding(table, s_offset)
                      IN  \E info \in s_section :
                             /\ s_section = {info}
                             /\ IF inside # {}
                                THEN InSection(info, segment, table[Least(inside)])
                                ELSE InSegmentOnly(info, segment)

\* C17, amended: the containing segment is the first segment in table order
\* whose file range holds the offset, and the section the first of its
\* sections that does; the answer is as stated provided the names of the
\* segments up to and including the containing one, and the name of the
\* section found, decode as UTF-8.  When one of them does not, the query
\* yields none.  A segment whose section table cannot be read is treated as
\* a segment without sections.
C17_MachOSectionQueryDecoded ==
    (s_op = "query" /\ s_obj.kind = "Mach") =>
        IF s_obj.arch = "Fat" THEN s_section = {}
        ELSE LET holding == SegmentsHolding(s_obj.segments, s_offset)
             IN  IF holding = {} THEN s_section = {}
                 ELSE LET first == Least(holding)
                          segment == s_obj.segments[first]
                          table == TableOf(segment)
                          inside == SectionsHolding(table, s_offset)
                      IN  IF \/ \E k \in 1..first : s_obj.segments[k].name = {}
                             \/ (inside # {} /\ table[Least(inside)].name = {})
                          THEN s_section = {}
                          ELSE \E info \in s_section :
                                 /\ s_section = {info}
                                 /\ IF inside # {}
                                    THEN InSection(info, segment, table[Least(inside)])
                                    ELSE InSegmentOnly(info, segment)

\* a query of a file with two segments answered with the constant-data
\* section of the code segment, the second segment of the table
C17_Witness ==
    /\ s_op = "query"
    /\ s_obj.kind = "Mach"
    /\ s_obj.arch = "Binary"
    /\ Len(s_obj.segments) = 2
    /\ SegmentsHolding(s_obj.segments, s_offset) = {2}
    /\ \E info \in s_section : info.name = "__TEXT.__const" /\ info.is_patchable

\* ------------------------------------------------------------------------
\* SpecBuilder: create_url_replacement called on short urls
\* (src/trinity/mod.rs)
\* ------------------------------------------------------------------------
\* urls of up to MaxUrl bytes, lengths 0..MaxLen
MaxUrl == 4
MaxLen == 5

\* the bytes of the urls: NUL, "/" and "h"
UrlBytes == {0, 47, 104}

BuilderInit ==
    /\ MatcherIdle /\ OrchestratorIdle /\ SectionIdle /\ KeysIdle /\ PatcherIdle /\ PatternsIdle
    /\ b_url \in SeqsUpTo(UrlBytes, MaxUrl)
    /\ b_len \in 0..MaxLen
    /\ b_result = {}

\* create_url_replacement(url, original_len)
BuildCall ==
    /\ b_result = {}
    /\ b_result' = {create_url_replacement(b_url, b_len)}
    /\ UNCHANGED << b_url, b_len, mvars, xvars, svars, kvars, pvars, cvars >>

BuilderNext == BuildCall

SpecBuilder == BuilderInit /\ [][BuilderNext]_vars

\* C18: build(url, n) returns a buffer of length exactly n for every url and
\* every n >= 0: its first min(len(url), n) bytes are the leading bytes of
\* url and the remaining positions are zero; a longer url is truncated
\* without an error, a shorter one is zero-padded on the right.
C18_BuildExactLength ==
    \A r \in b_result :
        /\ Len(r) = b_len
        /\ \A k \in 1..b_len :
              r[k] = IF k <= Len(b_url) THEN b_url[k] ELSE 0

\* a url longer than the length asked for, cut to that length
C18_Witness ==
    /\ b_len > 0
    /\ Len(b_url) > b_len
    /\ \E r \in b_result : Len(r) = b_len /\ r[b_len] = b_url[b_len] /\ r[b_len] # 0

\* ------------------------------------------------------------------------
\* src/keys/mod.rs: KeyConfig, its constructors and validate
\* A KeyConfig is [rsa_modulus |-> bytes, ed25519_public_key |-> bytes]; a
\* Result<KeyConfig, WowPatcherError> is [config |-> {} or {c}, error |-> {}
\* or {[category, message]}].  Text is a sequence of one-character strings.
\* ------------------------------------------------------------------------
\* the key lengths of validate and of the file and hex loaders
RSA_MODULUS_LEN == 256
ED25519_KEY_LEN == 32

KeyOk(c) == [config |-> {c}, error |-> {}]
KeyErr(category, message) ==
    [config |-> {}, error |-> {[category |-> category, message |-> message]}]

\* iter().all(|&b| b == x)
all_eq(bytes, x) == \A k \in 1..Len(bytes) : bytes[k] = x

\* validate checking the two lengths only
validate_lengths(c) ==
    IF Len(c.rsa_modulus) # RSA_MODULUS_LEN
    THEN {[category |-> "ValidationError",
           message |-> "RSA modulus must be exactly 256 bytes, got {}"]}
    ELSE IF Len(c.ed25519_public_key) # ED25519_KEY_LEN
    THEN {[category |-> "ValidationError",
           message |-> "Ed25519 public key must be exactly 32 bytes, got {}"]}
    ELSE {}

\* pub fn validate(&self) -> Result<(), WowPatcherError>: {} is Ok(())
validate(c) ==
    IF Len(c.rsa_modulus) # RSA_MODULUS_LEN
    THEN {[category |-> "ValidationError",
           message |-> "RSA modulus must be exactly 256 bytes, got {}"]}
    ELSE IF all_eq(c.rsa_modulus, 0)
    THEN {[category |-> "ValidationError", message |-> "RSA modulus cannot be all zeros"]}
    ELSE IF all_eq(c.rsa_modulus, c.rsa_modulus[1])
    THEN {[category |-> "ValidationError",
           message |-> "RSA modulus cannot contain all identical bytes"]}
    ELSE IF Len(c.ed25519_public_key) # ED25519_KEY_LEN
    THEN {[category |-> "ValidationError",
           message |-> "Ed25519 public key must be exactly 32 bytes, got {}"]}
    ELSE IF all_eq(c.ed25519_public_key, 0)
    THEN {[category |-> "ValidationError",
           message |-> "Ed25519 public key cannot be all zeros"]}
    ELSE IF all_eq(c.ed25519_public_key, c.ed25519_public_key[1])
    THEN {[category |-> "ValidationError",
           message |-> "Ed25519 public key cannot contain all identical bytes"]}
    ELSE {}

\* config.validate()?; Ok(config)
validated(c) == IF validate(c) # {} THEN [config |-> {}, error |-> validate(c)] ELSE KeyOk(c)

\* pub fn custom(rsa_modulus, ed25519_public_key) -> Result<Self, _>
custom(rsa, ed) == validated([rsa_modulus |-> rsa, ed25519_public_key |-> ed])

\* pub fn with_rsa_from_file(self, path): file is what fs::read(path) gives,
\* {} for an error and {bytes} otherwise
with_rsa_from_file(self, file) ==
    IF file = {} THEN KeyErr("FileOperationError", "Failed to read RSA modulus file: {}")
    ELSE LET rsa_data == CHOOSE b \in file : TRUE
         IN  IF Len(rsa_data) # RSA_MODULUS_LEN
             THEN KeyErr("ValidationError",
                         "RSA modulus must be exactly 256 bytes, got {} bytes")
             ELSE validated([self EXCEPT !.rsa_modulus = rsa_data])

\* pub fn with_ed25519_from_file(self, path)
with_ed25519_from_file(self, file) ==
    IF file = {}
    THEN KeyErr("FileOperationError", "Failed to read Ed25519 public key file: {}")
    ELSE LET ed25519_data == CHOOSE b \in file : TRUE
         IN  IF Len(ed25519_data) # ED25519_KEY_LEN
             THEN KeyErr("ValidationError",
                         "Ed25519 public key must be exactly 32 bytes, got {} bytes")
             ELSE validated([self EXCEPT !.ed25519_public_key = ed25519_data])

\* the hexadecimal digits, by value
LowerDigits == << "0", "1", "2", "3", "4", "5", "6", "7", "8", "9",
                  "a", "b", "c", "d", "e", "f" >>
UpperDigits == << "0", "1", "2", "3", "4", "5", "6", "7", "8", "9",
                  "A", "B", "C", "D", "E", "F" >>

\* char::is_ascii_hexdigit
is_ascii_hexdigit(c) == \E v \in 1..16 : c = LowerDigits[v] \/ c = UpperDigits[v]

\* the value of a hexadecimal digit
hex_val(c) == (CHOOSE v \in 1..16 : c = LowerDigits[v] \/ c = UpperDigits[v]) - 1

\* hex::decode: {} is Err (odd length, or a character that is no digit) and
\* {bytes} is Ok, two digits to the byte, the high one first
hex_decode(text) ==
    IF Len(text) % 2 # 0 THEN {}
    ELSE IF \E k \in 1..Len(text) : ~is_ascii_hexdigit(text[k]) THEN {}
    ELSE {[k \in 1..(Len(text) \div 2) |->
              16 * hex_val(text[2 * k - 1]) + hex_val(text[2 * k])]}

\* hex_str.chars().filter(|c| c.is_ascii_hexdigit()).collect::<String>()
cleaned(hex_str) == SelectSeq(hex_str, is_ascii_hexdigit)

\* the hex loader without the check of the number of digits
with_rsa_from_hex_unchecked(self, hex_str) ==
    LET cleaned_hex == cleaned(hex_str)
        rsa_data == hex_decode(cleaned_hex)
    IN  IF rsa_data = {}
        THEN KeyErr("ValidationError", "Invalid hex format for RSA modulus")
        ELSE validated([self EXCEPT !.rsa_modulus = CHOOSE b \in rsa_data : TRUE])

\* pub fn with_rsa_from_hex(self, hex_str: &str)
with_rsa_from_hex(self, hex_str) ==
    LET cleaned_hex == cleaned(hex_str)
    IN  IF Len(cleaned_hex) # 2 * RSA_MODULUS_LEN
        THEN KeyErr("ValidationError",
                    "RSA modulus hex string must be exactly 512 hex characters (256 bytes), got {} characters")
        ELSE LET rsa_data == hex_decode(cleaned_hex)
             IN  IF rsa_data = {}
                 THEN KeyErr("ValidationError", "Invalid hex format for RSA modulus")
                 ELSE validated([self EXCEPT !.rsa_modulus = CHOOSE b \in rsa_data : TRUE])

\* pub fn with_ed25519_from_hex(self, hex_str: &str)
with_ed25519_from_hex(self, hex_str) ==
    LET cleaned_hex == cleaned(hex_str)
    IN  IF Len(cleaned_hex) # 2 * ED25519_KEY_LEN
        THEN KeyErr("ValidationError",
                    "Ed25519 public key hex string must be exactly 64 hex characters (32 bytes), got {} characters")
        ELSE LET ed25519_data == hex_decode(cleaned_hex)
             IN  IF ed25519_data = {}
                 THEN KeyErr("ValidationError", "Invalid hex format for Ed25519 public key")
                 ELSE validated([self EXCEPT
                                    !.ed25519_public_key = CHOOSE b \in ed25519_data : TRUE])

\* ------------------------------------------------------------------------
\* SpecKeys: chains of KeyConfig constructors (src/keys/mod.rs)
\* ------------------------------------------------------------------------
\* a chain is one of trinity_core and custom followed by with_* calls, at
\* most MaxSteps calls in all
MaxSteps == 2

\* key material of length n: all zero, one repeated byte, or that byte with
\* another one in the first place, in the last place, or in both
KeyStyles == {"zeros", "same", "first", "last", "mixed"}

MakeKey(n, style) ==
    [k \in 1..n |->
        CASE style = "zeros" -> 0
          [] style = "same" -> 66
          [] style = "first" -> IF k = 1 THEN 67 ELSE 66
          [] style = "last" -> IF k = n THEN 68 ELSE 66
          [] style = "mixed" -> IF k = 1 THEN 67 ELSE IF k = n THEN 68 ELSE 66]

RsaSamples ==
    {RSA_MODULUS} \cup
    {MakeKey(n, style) :
        n \in {0, RSA_MODULUS_LEN - 1, RSA_MODULUS_LEN, RSA_MODULUS_LEN + 1},
        style \in KeyStyles}

EdSamples ==
    {CRYPTO_ED25519_PUBLIC_KEY} \cup
    {MakeKey(n, style) :
        n \in {0, ED25519_KEY_LEN - 1, ED25519_KEY_LEN, ED25519_KEY_LEN + 1},
        style \in KeyStyles}

\* what fs::read gives for the key files: an error or one of the samples
RsaFiles == {{}} \cup {{b} : b \in RsaSamples}
EdFiles == {{}} \cup {{b} : b \in EdSamples}

\* the text of a key in hexadecimal, with the digits given
hex_encode(bytes, digits) ==
    [i \in 1..(2 * Len(bytes)) |->
        IF i % 2 = 1 THEN digits[(bytes[(i + 1) \div 2] \div 16) + 1]
        ELSE digits[(bytes[i \div 2] % 16) + 1]]

\* the same with a colon after every byte
hex_colons(bytes) ==
    [i \in 1..(3 * Len(bytes)) |->
        IF i % 3 = 1 THEN LowerDigits[(bytes[(i + 2) \div 3] \div 16) + 1]
        ELSE IF i % 3 = 2 THEN LowerDigits[(bytes[(i + 1) \div 3] % 16) + 1]
        ELSE ":"]

\* the hex texts given for a key: lower case, upper case, with colons, with
\* a "0x" in front, with a letter that is no digit behind, and with the last
\* digit missing
HexTextsOf(bytes) ==
    LET lower == hex_encode(bytes, LowerDigits)
    IN  {lower, hex_encode(bytes, UpperDigits), hex_colons(bytes),
         << "0", "x" >> \o lower, lower \o << "g" >>,
         SubSeq(lower, 1, Len(lower) - 1)}

RsaHexTexts ==
    UNION {HexTextsOf(b) : b \in {MakeKey(RSA_MODULUS_LEN, "mixed"),
                                  MakeKey(RSA_MODULUS_LEN, "same"),
                                  MakeKey(RSA_MODULUS_LEN - 1, "mixed")}}

EdHexTexts ==
    UNION {HexTextsOf(b) : b \in {MakeKey(ED25519_KEY_LEN, "mixed"),
                                  MakeKey(ED25519_KEY_LEN, "same"),
                                  MakeKey(ED25519_KEY_LEN - 1, "mixed")}}

KeysInit ==
    /\ MatcherIdle /\ OrchestratorIdle /\ SectionIdle /\ BuilderIdle
    /\ KeysIdle /\ PatcherIdle /\ PatternsIdle

\* the value or the error a constructor returns, and the call that gave it
Returned(r, call) ==
    /\ k_config' = r.config
    /\ k_error' = r.error
    /\ k_call' = call
    /\ k_steps' = k_steps + 1
    /\ UNCHANGED << mvars, xvars, svars, bvars, pvars, cvars >>

\* KeyConfig::trinity_core() (and Default::default())
TrinityCore ==
    /\ k_steps = 0
    /\ Returned(KeyOk(trinity_core), [NoCall EXCEPT !.fn = "trinity_core"])

\* KeyConfig::custom(rsa_modulus, ed25519_public_key)
Custom ==
    /\ k_steps = 0
    /\ \E rsa \in RsaSamples, ed \in EdSamples :
        Returned(custom(rsa, ed), [NoCall EXCEPT !.fn = "custom", !.rsa = rsa, !.ed = ed])

\* config.with_rsa_from_file(path)
WithRsaFromFile ==
    /\ k_steps < MaxSteps
    /\ \E self \in k_config : \E file \in RsaFiles :
        Returned(with_rsa_from_file(self, file),
                 [NoCall EXCEPT !.fn = "with_rsa_from_file", !.file = file])

\* config.with_ed25519_from_file(path)
WithEd25519FromFile ==
    /\ k_steps < MaxSteps
    /\ \E self \in k_config : \E file \in EdFiles :
        Returned(with_ed25519_from_file(self, file),
                 [NoCall EXCEPT !.fn = "with_ed25519_from_file", !.file = file])

\* config.with_rsa_from_hex(hex_str)
WithRsaFromHex ==
    /\ k_steps < MaxSteps
    /\ \E self \in k_config : \E hex_str \in RsaHexTexts :
        Returned(with_rsa_from_hex(self, hex_str),
                 [NoCall EXCEPT !.fn = "with_rsa_from_hex", !.hex = hex_str])

\* config.with_ed25519_from_hex(hex_str)
WithEd25519FromHex ==
    /\ k_steps < MaxSteps
    /\ \E self \in k_config : \E hex_str \in EdHexTexts :
        Returned(with_ed25519_from_hex(self, hex_str),
                 [NoCall EXCEPT !.fn = "with_ed25519_from_hex", !.hex = hex_str])

KeysNext ==
    \/ TrinityCore
    \/ Custom
    \/ WithRsaFromFile
    \/ WithEd25519FromFile
    \/ WithRsaFromHex
    \/ WithEd25519FromHex

SpecKeys == KeysInit /\ [][KeysNext]_vars

\* the validation invariants of one key buffer: the length is exact, some
\* byte is not zero, and more than one byte value occurs
SlotValid(bytes, n) ==
    /\ Len(bytes) = n
    /\ \E k \in 1..Len(bytes) : bytes[k] # 0
    /\ Cardinality({bytes[k] : k \in 1..Len(bytes)}) > 1

KeyInvariants(c) ==
    /\ SlotValid(c.rsa_modulus, RSA_MODULUS_LEN)
    /\ SlotValid(c.ed25519_public_key, ED25519_KEY_LEN)

\* the last call returned a validation error and no KeyConfig
RejectedAsInvalid ==
    /\ k_config = {}
    /\ k_error # {}
    /\ \A e \in k_error : e.category = "ValidationError"

\* C19: every KeyConfig a constructor hands out (the defaults, custom, and
\* each successful with_*_from_file and with_*_from_hex step) has an RSA
\* modulus of exactly 256 bytes and an Ed25519 key of exactly 32 bytes,
\* neither all-zero nor one repeated byte; raw bytes, file bytes or decoded
\* hex bytes violating this are rejected with a validation error and no
\* KeyConfig is returned.
C19_ConstructedKeysValid ==
    /\ \A c \in k_config : KeyInvariants(c)
    /\ (k_call.fn # "none") => ((k_config = {}) <=> (k_error # {}))
    /\ (/\ k_call.fn = "custom"
        /\ ~KeyInvariants([rsa_modulus |-> k_call.rsa, ed25519_public_key |-> k_call.ed]))
            => RejectedAsInvalid
    /\ (k_call.fn = "with_rsa_from_file") =>
            \A b \in k_call.file : ~SlotValid(b, RSA_MODULUS_LEN) => RejectedAsInvalid
    /\ (k_call.fn = "with_ed25519_from_file") =>
            \A b \in k_call.file : ~SlotValid(b, ED25519_KEY_LEN) => RejectedAsInvalid
    /\ (k_call.fn = "with_rsa_from_hex") =>
            \A b \in hex_decode(cleaned(k_call.hex)) :
                ~SlotValid(b, RSA_MODULUS_LEN) => RejectedAsInvalid
    /\ (k_call.fn = "with_ed25519_from_hex") =>
            \A b \in hex_decode(cleaned(k_call.hex)) :
                ~SlotValid(b, ED25519_KEY_LEN) => RejectedAsInvalid

\* a key file replaced the Ed25519 key of a custom configuration
C19_Witness ==
    /\ k_call.fn = "with_ed25519_from_file"
    /\ \E c \in k_config :
        /\ c.rsa_modulus # RSA_MODULUS
        /\ c.ed25519_public_key # CRYPTO_ED25519_PUBLIC_KEY
        /\ {c.ed25519_public_key} = k_call.file

\* the number of hexadecimal digits in a text
HexDigitCount(text) ==
    Cardinality({i \in 1..Len(text) :
        text[i] \in {LowerDigits[v] : v \in 1..16} \cup {UpperDigits[v] : v \in 1..16}})

\* the messages of the errors reported when hex::decode fails
DecodeFailureMessages ==
    {"Invalid hex format for RSA modulus", "Invalid hex format for Ed25519 public key"}

\* what a hex loader did with a text for a slot of n bytes: accepted only
\* with 2n digits, and then the slot holds the bytes the digits spell; with
\* another number of digits a validation error that is not the error of a
\* decode failure
HexSourceChecked(n, slot) ==
    /\ (k_config # {}) =>
        /\ HexDigitCount(k_call.hex) = 2 * n
        /\ \A c \in k_config :
            /\ Len(slot[c]) = n
            /\ \A k \in 1..n :
                slot[c][k] = 16 * hex_val(cleaned(k_call.hex)[2 * k - 1])
                             + hex_val(cleaned(k_call.hex)[2 * k])
    /\ (HexDigitCount(k_call.hex) # 2 * n) =>
        /\ RejectedAsInvalid
        /\ \A e \in k_error : e.message \notin DecodeFailureMessages

\* C20: a hex-text key source is accepted only if, after the characters that
\* are no hex digits are stripped, it has 512 digits (RSA slot) or 64 digits
\* (Ed25519 slot) and so decodes to exactly the required length; another
\* number of digits is reported as a validation error different from the
\* error reported when the hex decoding fails.
C20_HexSourceLength ==
    /\ (k_call.fn = "with_rsa_from_hex") =>
        HexSourceChecked(RSA_MODULUS_LEN, [c \in k_config |-> c.rsa_modulus])
    /\ (k_call.fn = "with_ed25519_from_hex") =>
        HexSourceChecked(ED25519_KEY_LEN, [c \in k_config |-> c.ed25519_public_key])

\* an RSA modulus written with a colon after every byte was accepted
C20_Witness ==
    /\ k_call.fn = "with_rsa_from_hex"
    /\ Len(k_call.hex) > 2 * RSA_MODULUS_LEN
    /\ \E c \in k_config : c.rsa_modulus = MakeKey(RSA_MODULUS_LEN, "mixed")

\* ------------------------------------------------------------------------
\* Properties of the end of a run (checked under Spec)
\* ------------------------------------------------------------------------
\* C21: remove_codesigning_signature is called at most once, only after the
\* patched buffer has been written to the output path, only when
\* strip_codesign was given and only on macOS, never in a dry run and never
\* in a run that failed before; when it fails the run returns PlatformError
\* and the output written stays as it was written.
C21_CodesignAfterWrite ==
    /\ codesign <= 1
    /\ (codesign > 0) =>
        /\ ~dry_run
        /\ output = {data}
        /\ strip_codesign = {TRUE}
        /\ macos = {TRUE}
        /\ pc = "done"
        /\ result \in {"Ok", "PlatformError"}
    /\ (result \notin {"running", "Ok", "PlatformError"}) => codesign = 0
    /\ (result = "PlatformError") => codesign = 1 /\ output = {data}

\* the stripping failed after a patched file was written
C21_Witness ==
    /\ codesign = 1
    /\ result = "PlatformError"
    /\ output = {data}
    /\ data # input

\* ------------------------------------------------------------------------
\* SpecScenario: the hostname-removal target on a buffer of zero bytes that
\* holds the hostname text once (tests/integration_test.rs,
\* test_patching_with_real_patterns)
\* ------------------------------------------------------------------------
\* let mut data = vec![0u8; 2048]
ScenarioSize == 2048

\* let portal_offset = 100
portal_offset == 100

\* the scenario's offset, and others from the start of the buffer to the
\* last place where the text fits
ScenarioOffsets ==
    {portal_offset} \cup {29 * k : k \in 0..((ScenarioSize - Len(portal_pattern)) \div 29)}

\* data[portal_offset..portal_offset + portal_str.len()].copy_from_slice(portal_str)
ScenarioBuffer(offset) ==
    [k \in 1..ScenarioSize |->
        IF k - 1 >= offset /\ k - 1 < offset + Len(portal_pattern)
        THEN portal_pattern[k - offset] ELSE 0]

ScenarioInit ==
    /\ \E offset \in ScenarioOffsets : m_data = ScenarioBuffer(offset)
    /\ m_before = m_data
    /\ m_find = portal_pattern
    /\ m_replace = empty(portal_pattern)
    /\ m_position = {}
    /\ m_result = "none"
    /\ m_calls = 0
    /\ OrchestratorIdle
    /\ SectionIdle /\ BuilderIdle /\ KeysIdle /\ PatcherIdle /\ PatternsIdle

SpecScenario == ScenarioInit /\ [][MatcherNext]_vars

\* the offsets at which a buffer holds the bytes of ".actual.battle.net"
Hostname == << 46, 97, 99, 116, 117, 97, 108, 46, 98, 97, 116, 116, 108, 101, 46, 110, 101, 116 >>

HostnameAt(b) ==
    {o \in ScenarioOffsets : /\ o + Len(Hostname) <= Len(b)
                             /\ b[o + 1] = Hostname[1]
                             /\ SubSeq(b, o + 1, o + Len(Hostname)) = Hostname}

\* the offsets of the bytes the last call changed to zero
Zeroed == {k \in 0..(Len(m_before) - 1) : m_before[k + 1] # 0 /\ m_data[k + 1] = 0}

\* C22 as stated: with the text at offset 100 of 2048 zero bytes the search
\* finds offset 100 and the patch zeroes exactly 19 bytes there.
C22_ZeroesNineteenBytes ==
    (m_calls > 0 /\ HostnameAt(m_before) = {portal_offset}) =>
        /\ m_position = {portal_offset}
        /\ (m_result = "Ok") => Cardinality(Zeroed) = 19

\* C22: with the text ".actual.battle.net" at offset o of 2048 zero bytes
\* (o = 100 in the scenario) the search finds offset o, and the patch zeroes
\* exactly the 18 bytes of the text, o .. o + 17, and leaves a buffer of
\* 2048 zero bytes.
C22_ZeroesHostname ==
    \A o \in HostnameAt(m_before) :
        (m_calls > 0) =>
            /\ m_position = {o}
            /\ (m_result = "Ok") =>
                /\ Zeroed = o..(o + 17)
                /\ m_data = [k \in 1..ScenarioSize |-> 0]

\* the scenario itself: the text at offset 100, patched
C22_Witness ==
    /\ HostnameAt(m_before) = {portal_offset}
    /\ m_result = "Ok"
    /\ m_position = {portal_offset}
    /\ m_data[portal_offset + 1] = 0

\* the targets a run on the input overwrites, read off the input: a target
\* counts when one of its candidate patterns is in the file, the Ed25519 key
\* only for the client types that use it, and the CDNs URL only when the
\* version URL was not patched through the unified pattern
Present(names) == \E n \in names : InInput(n) # {}

ExpectedTargets ==
    (IF Present({"Portal"}) THEN {"hostname"} ELSE {})
    \cup (IF Present(RsaNames) THEN {"rsa"} ELSE {})
    \cup (IF uses_ed25519(client_type) /\ Present({"Ed25519"}) THEN {"ed25519"} ELSE {})
    \cup (IF Present(VersionNames) THEN {"version_url"} ELSE {})
    \cup (IF Present({"CDNs"}) /\ ~(Present({"v3"}) /\ ~Present({"v1", "v2"}))
          THEN {"cdns_url"} ELSE {})

\* C23: on a successful apply-mode run the applied count reported is the
\* number of logical targets overwritten in the run, each target overwritten
\* by one patch call at most however many candidates it has, and a target
\* that was not found, was gated off or was superseded adds nothing.
C23_AppliedCount ==
    (~dry_run /\ pc = "done" /\ result = "Ok") =>
        /\ patch_count = Cardinality(AppliedTargets)
        /\ Cardinality(Written) = Cardinality(AppliedTargets)
        /\ AppliedTargets = ExpectedTargets

\* a successful run that counted three targets and left alone a CDNs URL
\* that is in the file
C23_Witness ==
    /\ ~dry_run /\ pc = "done" /\ result = "Ok"
    /\ patch_count = 3
    /\ used_unified_api
    /\ InInput("CDNs") # {}

\* ------------------------------------------------------------------------
\* src/patcher.rs: the builder Patcher.  A path is the sequence of its
\* pieces, the extension last; a URL is the sequence of its bytes.
\* ------------------------------------------------------------------------
\* at most this many builder methods are called between new and patch
MaxSetters == 2

\* KeyConfig::new(rsa_modulus, ed25519_public_key), called by custom_keys:
\* key material constructed from raw bytes and validated
KeyConfig_new(rsa, ed) == custom(rsa, ed)

\* KeyConfig::from_hex(rsa_hex, ed25519_hex), called by custom_keys_from_hex:
\* both keys loaded from hex text and validated
KeyConfig_from_hex(rsa_hex, ed25519_hex) ==
    LET r == with_rsa_from_hex(trinity_core, rsa_hex)
    IN  IF r.config = {} THEN r
        ELSE with_ed25519_from_hex(CHOOSE c \in r.config : TRUE, ed25519_hex)

\* KeyConfig::from_files(rsa_file, ed25519_file), called by
\* custom_keys_from_files: both keys loaded from files and validated
KeyConfig_from_files(rsa_file, ed25519_file) ==
    LET r == with_rsa_from_file(trinity_core, rsa_file)
    IN  IF r.config = {} THEN r
        ELSE with_ed25519_from_file(CHOOSE c \in r.config : TRUE, ed25519_file)

\* pub fn new(input) -> Self, path being the input given
Patcher_new(path) ==
    [input |-> path, output |-> {}, key_config |-> {}, version_url |-> {},
     cdns_url |-> {}, dry_run |-> FALSE, strip_codesign |-> FALSE, verbose |-> FALSE]

\* "/{region}/{product}/versions" and "/{region}/{product}/cdns"
versions_suffix ==
    << 47, 123, 114, 101, 103, 105, 111, 110, 125, 47, 123, 112, 114, 111, 100, 117, 99,
       116, 125, 47, 118, 101, 114, 115, 105, 111, 110, 115 >>
cdns_suffix ==
    << 47, 123, 114, 101, 103, 105, 111, 110, 125, 47, 123, 112, 114, 111, 100, 117, 99,
       116, 125, 47, 99, 100, 110, 115 >>

\* the output path patch uses when none was set: ".exe" replaced by
\* "-patched.exe" when the input ends with ".exe", "-patched" appended otherwise
default_output(path) ==
    IF path # << >> /\ path[Len(path)] = ".exe"
    THEN [k \in 1..Len(path) |-> IF path[k] = ".exe" THEN "-patched.exe" ELSE path[k]]
    ELSE Append(path, "-patched")

\* the inputs of the builder: paths, key material and URLs
PatcherInputs == {<< "Wow", ".exe" >>, << "World of Warcraft" >>}
PatcherOutputs == {<< "Wow-tc", ".exe" >>}
PatcherKeys ==
    {<< MakeKey(RSA_MODULUS_LEN, "mixed"), MakeKey(ED25519_KEY_LEN, "mixed") >>,
     << MakeKey(RSA_MODULUS_LEN - 1, "mixed"), MakeKey(ED25519_KEY_LEN, "mixed") >>}
\* "http://c"
PatcherUrls == {<< 104, 116, 116, 112, 58, 47, 47, 99 >>}
\* the files patch is run on, and what detect_client_type makes of the path
PatcherLayouts == {<< "Portal", "ConnectTo", "v3", "CDNs" >>}
PatcherClientTypes == {"Retail", "ClassicEra"}

PatcherInit ==
    /\ MatcherIdle /\ OrchestratorIdle
    /\ SectionIdle /\ BuilderIdle /\ KeysIdle /\ PatternsIdle
    /\ \E path \in PatcherInputs : patcher = {Patcher_new(path)}
    /\ p_state = "building"
    /\ p_calls = 0
    /\ p_output = << >>

\* a builder method that returns Self
Set(self) ==
    /\ patcher' = {self}
    /\ p_calls' = p_calls + 1
    /\ UNCHANGED << p_state, p_output, mvars, xvars, svars, bvars, kvars, cvars >>

\* a builder method that returns Result<Self, WowPatcherError>, given the
\* result of the KeyConfig constructor it calls
SetKeys(self, r) ==
    /\ IF r.config = {}
       THEN patcher' = {} /\ p_state' = "Err"
       ELSE patcher' = {[self EXCEPT !.key_config = r.config]} /\ UNCHANGED p_state
    /\ p_calls' = p_calls + 1
    /\ UNCHANGED << p_output, mvars, xvars, svars, bvars, kvars, cvars >>

Building == p_state = "building" /\ p_calls < MaxSetters

PatcherOutput ==
    /\ Building
    /\ \E self \in patcher, path \in PatcherOutputs :
        Set([self EXCEPT !.output = {path}])

TrinityCoreKeys ==
    /\ Building
    /\ \E self \in patcher : Set([self EXCEPT !.key_config = {trinity_core}])

CustomKeys ==
    /\ Building
    /\ \E self \in patcher, k \in PatcherKeys : SetKeys(self, KeyConfig_new(k[1], k[2]))

CustomKeysFromHex ==
    /\ Building
    /\ \E self \in patcher, k \in PatcherKeys :
        SetKeys(self, KeyConfig_from_hex(hex_encode(k[1], LowerDigits),
                                         hex_encode(k[2], UpperDigits)))

CustomKeysFromFiles ==
    /\ Building
    /\ \E self \in patcher, k \in PatcherKeys, readable \in BOOLEAN :
        SetKeys(self, KeyConfig_from_files(IF readable THEN {k[1]} ELSE {}, {k[2]}))

CustomCdn ==
    /\ Building
    /\ \E self \in patcher, url \in PatcherUrls :
        Set([self EXCEPT !.version_url = {url \o versions_suffix},
                         !.cdns_url = {url \o cdns_suffix}])

PatcherVersionUrl ==
    /\ Building
    /\ \E self \in patcher, url \in PatcherUrls : Set([self EXCEPT !.version_url = {url}])

PatcherCdnsUrl ==
    /\ Building
    /\ \E self \in patcher, url \in PatcherUrls : Set([self EXCEPT !.cdns_url = {url}])

PatcherDryRun ==
    /\ Building
    /\ \E self \in patcher, enabled \in BOOLEAN : Set([self EXCEPT !.dry_run = enabled])

PatcherStripCodesign ==
    /\ Building
    /\ \E self \in patcher, enabled \in BOOLEAN :
        Set([self EXCEPT !.strip_codesign = enabled])

PatcherVerbose ==
    /\ Building
    /\ \E self \in patcher, enabled \in BOOLEAN : Set([self EXCEPT !.verbose = enabled])

\* pub fn patch(self): the output path, the key configuration, and the call
\* of execute_patch, whose run is the steps of Next; patcher keeps the
\* value patch was called on
PatcherPatch ==
    /\ p_state = "building"
    /\ \E self \in patcher :
        /\ p_output' = unwrap_or(self.output, default_output(self.input))
        /\ key_config' = unwrap_or(self.key_config, trinity_core)
        /\ version_url' = self.version_url
        /\ cdns_url' = self.cdns_url
        /\ dry_run' = self.dry_run
        /\ strip_codesign' = {self.strip_codesign}
    /\ p_state' = "patched"
    /\ pc' = "start"
    /\ client_type' \in PatcherClientTypes
    /\ layout' \in PatcherLayouts
    /\ obj' \in ObjectsOf(layout')
    /\ UNCHANGED << patcher, p_calls, mvars, svars, bvars, kvars, cvars, data, temp_data,
                    offsets_to_validate, listed, patch_count, used_unified_api, result,
                    output, codesign, log, macos >>

PatcherNext ==
    \/ PatcherOutput
    \/ TrinityCoreKeys
    \/ CustomKeys
    \/ CustomKeysFromHex
    \/ CustomKeysFromFiles
    \/ CustomCdn
    \/ PatcherVersionUrl
    \/ PatcherCdnsUrl
    \/ PatcherDryRun
    \/ PatcherStripCodesign
    \/ PatcherVerbose
    \/ PatcherPatch
    \/ Next

SpecPatcher == PatcherInit /\ [][PatcherNext]_vars

\* C24: Patcher::patch returns an error when no key configuration was set
\* on the builder, that is when none of trinity_core_keys, custom_keys,
\* custom_keys_from_hex and custom_keys_from_files was called before patch.
C24_NoKeysIsError ==
    (p_state = "patched" /\ pc = "done") =>
        \A self \in patcher : self.key_config = {} => result # "Ok"

\* the steps from which a run returns an error before fs::write is called
BeforeWrite == {"start", "validate", "portal", "rsa", "output_dir"}

MaxAccess == 3

\* string_to_pattern("{\"Created\":")
cert_bundle_pattern == << 123, 34, 67, 114, 101, 97, 116, 101, 100, 34, 58 >>

\* the closure each accessor passes to get_or_init
Closure(name) ==
    CASE name = "portal_pattern" -> portal_pattern
      [] name = "connect_to_modulus_pattern" -> connect_to_modulus_pattern
      [] name = "signature_modulus_pattern" -> signature_modulus_pattern
      [] name = "crypto_rsa_modulus_pattern" -> crypto_rsa_modulus_pattern
      [] name = "crypto_ed_public_key_pattern" -> crypto_ed_public_key_pattern
      [] name = "version_url_pattern" -> version_url_pattern
      [] name = "version_url_v2_pattern" -> version_url_v2_pattern
      [] name = "version_url_v3_pattern" -> version_url_v3_pattern
      [] name = "cdns_url_pattern" -> cdns_url_pattern
      [] name = "cert_bundle_pattern" -> cert_bundle_pattern

\* get_or_init running the closure whatever the cell holds
must_init_always(cell) == TRUE

\* OnceLock::get_or_init runs the closure only when the cell is not set
must_init(cell) == cell = {}

PatternsInit ==
    /\ MatcherIdle /\ OrchestratorIdle
    /\ SectionIdle /\ BuilderIdle /\ KeysIdle /\ PatcherIdle
    /\ PatternsIdle

\* a thread calls an accessor
Access ==
    /\ c_calls < MaxAccess
    /\ \E t \in Threads, n \in Accessors :
        /\ threads[t].pc = "idle"
        /\ threads' = [threads EXCEPT ![t] = [pc |-> "calling", name |-> n, got |-> {}]]
    /\ c_calls' = c_calls + 1
    /\ UNCHANGED << cells, inits, mvars, xvars, svars, bvars, kvars, pvars >>

\* get_or_init: the value of the cell when it is set; otherwise the thread
\* starts the closure, unless another thread is running the closure of the
\* same cell, in which case it waits
GetOrInit ==
    /\ \E t \in Threads :
        /\ threads[t].pc = "calling"
        /\ LET n == threads[t].name
           IN  IF must_init(cells[n])
               THEN /\ \A u \in Threads : ~(threads[u].pc = "init" /\ threads[u].name = n)
                    /\ threads' = [threads EXCEPT ![t].pc = "init"]
               ELSE threads' = [threads EXCEPT ![t].pc = "idle", ![t].got = cells[n]]
    /\ UNCHANGED << cells, inits, c_calls, mvars, xvars, svars, bvars, kvars, pvars >>

\* the closure has run: the cell is set and the accessor returns its value
Initialised ==
    /\ \E t \in Threads :
        /\ threads[t].pc = "init"
        /\ LET n == threads[t].name
           IN  /\ cells' = [cells EXCEPT ![n] = {Closure(n)}]
               /\ inits' = [inits EXCEPT ![n] = @ + 1]
               /\ threads' = [threads EXCEPT ![t].pc = "idle", ![t].got = {Closure(n)}]
    /\ UNCHANGED << c_calls, mvars, xvars, svars, bvars, kvars, pvars >>

PatternsNext == Access \/ GetOrInit \/ Initialised

SpecPatterns == PatternsInit /\ [][PatternsNext]_vars

\* the well-known value of each pattern constant
WellKnown(name) ==
    CASE name = "portal_pattern" ->
            << 46, 97, 99, 116, 117, 97, 108, 46, 98, 97, 116, 116, 108, 101, 46, 110,
               101, 116 >>
      [] name = "connect_to_modulus_pattern" -> << 145, 213, 155, 183, 212, 225, 131, 165 >>
      [] name = "signature_modulus_pattern" -> << 53, 255, 23, 231, 51, 196, 211, 212 >>
      [] name = "crypto_rsa_modulus_pattern" -> << 113, 253, 250, 96, 20, 13, 242, 5 >>
      [] name = "crypto_ed_public_key_pattern" -> << 21, 214, 24, 189, 125, 181, 119, 189 >>
      [] OTHER -> Closure(name)

\* every cell that is set holds the value of its pattern and was set by one
\* run of its closure, and every accessor call that has returned gave it
CellsFixed ==
    /\ \A n \in Accessors :
        /\ inits[n] <= 1
        /\ cells[n] \subseteq {WellKnown(n)}
        /\ (cells[n] # {}) <=> (inits[n] = 1)
    /\ \A t \in Threads :
        (threads[t].pc = "idle" /\ threads[t].name # "") =>
            threads[t].got = {WellKnown(threads[t].name)}

\* C26: each pattern constant is initialised at most once and never changes
\* afterwards, and every accessor call returns the same well-known value,
\* whatever the order of the calls and the interleaving of the first uses.
C26_PatternsInitialisedOnce ==
    [][/\ CellsFixed
       /\ CellsFixed'
       /\ \A n \in Accessors : (cells[n] # {}) => (cells'[n] = cells[n])]_vars

\* two threads raced for the first use of one constant: one ran the closure,
\* the other waited, and both got the value
C26_Witness ==
    \E t, u \in Threads, n \in Accessors :
        /\ t # u
        /\ threads[t] = [pc |-> "idle", name |-> n, got |-> {WellKnown(n)}]
        /\ threads[u] = threads[t]
        /\ inits[n] = 1

\* ------------------------------------------------------------------------
\* SpecCrafted: runs of execute_patch on inputs chosen to set the targets
\* against each other: a replacement URL that holds another target's
\* pattern, and section tables whose sections end inside a pattern
\* ------------------------------------------------------------------------
\* --version-url "xxhttp://%s.patch.battle.net:1119/%s/cdns": two characters
\* and then the text of the CDNs URL pattern
crafted_version_url == << 120, 120 >> \o cdns_url_pattern

CraftedLayouts ==
    {<< "Portal", "ConnectTo", "v1" >>, << "Portal", "ConnectTo", "v1", "CDNs" >>}

\* a PE section table with one section per pattern, as SectionsOf, but with
\* the pattern split: its first byte is the last of a ".rdata" section and
\* the rest of it lies in the ".text" section that follows
RECURSIVE SplitSectionsOf(_, _, _)
SplitSectionsOf(lay, split, n) ==
    IF n > Len(lay) THEN << >>
    ELSE (IF n = split
          THEN << [name |-> name8(rdata),
                   pointer_to_raw_data |-> ChunkStart(lay, n),
                   size_of_raw_data |-> 1],
                  [name |-> name8(dot_text),
                   pointer_to_raw_data |-> ChunkStart(lay, n) + 1,
                   size_of_raw_data |-> Len(PatternOf(lay[n])) - 1] >>
          ELSE << [name |-> IF n % 2 = 1 THEN name8(rdata) ELSE name8(dot_data),
                   pointer_to_raw_data |-> ChunkStart(lay, n),
                   size_of_raw_data |-> Len(PatternOf(lay[n]))] >>)
         \o SplitSectionsOf(lay, split, n + 1)

CraftedObjectsOf(lay) ==
    ObjectsOf(lay) \cup
    {[kind |-> "PE", sections |-> SplitSectionsOf(lay, split, 1)] : split \in 1..Len(lay)}

CraftedInit ==
    /\ MatcherIdle
    /\ SectionIdle /\ BuilderIdle /\ KeysIdle /\ PatcherIdle /\ PatternsIdle
    /\ pc = "start"
    /\ dry_run \in BOOLEAN
    /\ client_type \in ClientTypes
    /\ key_config = trinity_core
    /\ version_url \in {{}, {crafted_version_url}}
    /\ cdns_url = {}
    /\ layout \in CraftedLayouts
    /\ obj \in CraftedObjectsOf(layout)
    /\ data = << >>
    /\ temp_data = << >>
    /\ offsets_to_validate = << >>
    /\ listed = << >>
    /\ patch_count = 0
    /\ used_unified_api = FALSE
    /\ result = "running"
    /\ output = {}
    /\ codesign = 0
    /\ log = << >>
    /\ strip_codesign = {}
    /\ macos = {}

SpecCrafted == CraftedInit /\ [][Next]_vars

\* C27: in apply mode every write lands at an offset that was validated:
\* the offset at which a patch call overwrites the buffer is one of the
\* offsets of the list that passed validate_patch_offsets.
C27_WritesAtValidatedOffsets ==
    ~dry_run =>
        \A i \in Written : \A o \in log[i].at :
            \E k \in 1..Len(offsets_to_validate) : offsets_to_validate[k][1] = o

\* the number of bytes a successful patch call of the run writes:
\* min(replace.len(), find.len()), and no replacement of a run is shorter
\* than its pattern
WrittenLen(name) == Len(PatternOf(name))

\* C28: in apply mode every byte position overwritten lies inside a section
\* classified patchable: the whole range [offset, offset + k) of each write
\* is in the file range of a patchable section.
C28_WrittenRangePatchable ==
    ~dry_run =>
        \A i \in Written : \A o \in log[i].at :
            \A j \in 0..(WrittenLen(log[i].pat) - 1) :
                \E sec \in check_offset_section(obj, o + j) : sec.is_patchable

\* C29: apply never changes the length of the buffer and never writes
\* outside it: a call of find or apply leaves the length as it was, and
\* when apply succeeds the written range ends inside the buffer,
\* offset + min(len(replacement), len(pattern)) <= len(buffer).
C29_ApplyInBounds ==
    [][/\ Len(m_data') = Len(m_data)
       /\ m_result' = "Ok" =>
            \A pos \in m_position' :
                pos + Min(Len(m_replace), Len(m_find)) <= Len(m_data)]_vars

\* a second call that patched a match ending at the last byte of the buffer
C29_Witness ==
    /\ m_calls > 1
    /\ m_result = "Ok"
    /\ Len(m_replace) > 0
    /\ Len(m_find) < Len(m_before)
    /\ m_position = {Len(m_before) - Len(m_find)}
    /\ Len(m_data) = Len(m_before)

\* the patch calls a dry run makes, each on a fresh clone of the input
\* (execute.rs:185-367): the portal, the RSA chain, the Ed25519 key for the
\* client types that use it, the version URL chain, and the CDNs URL
DryProbes ==
    << Call("probe", input, "Portal", empty(portal_pattern)).ev >>
    \o RsaChain("probe", input, key_config).evs
    \o (IF uses_ed25519(client_type)
        THEN << Call("probe", input, "Ed25519", ed25519_public_key(key_config)).ev >>
        ELSE << >>)
    \o VersionChain("probe", input, version_url).evs
    \o << Call("probe", input, "CDNs",
               create_url_replacement(unwrap_or(cdns_url, get_cdns_url),
                                      Len(cdns_url_pattern))).ev >>

\* the patterns a dry run on the input reports with a check mark
WouldPatch == {DryProbes[k].pat : k \in {i \in 1..Len(DryProbes) : DryProbes[i].res = "Ok"}}

\* the patterns the run overwrote
Overwritten == {log[i].pat : i \in Written}

\* the probes that a finished dry run logged are the ones DryProbes computes
DryProbesAreLogged ==
    (dry_run /\ pc = "done" /\ result = "Ok") => log = DryProbes

\* C30: dry-run and apply agree on which targets are patchable: for an input
\* on which apply succeeds, the patterns a dry run reports as would-be-patched
\* are the patterns apply overwrites.
C30_DryRunMatchesApply ==
    (~dry_run /\ pc = "done" /\ result = "Ok") => Overwritten = WouldPatch

====
